---- MODULE Spec2Model ----
(***************************************************************************)
(* Model of the tariff-rate resolution and price decomposition engine of   *)
(* amazon-tariff-checker: the two copies of fallbackCalculation            *)
(* (scripts/content.js, scripts/content-injection.js) and the tariff API   *)
(* connector (normalizeCountryName, fallbackTariffCheck, getTariffInfo and *)
(* its cache), and the click handler of the popup (popup/popup.js) with    *)
(* the script executions it starts in the page, and the tariff modal that  *)
(* both content scripts show in the page.                                  *)
(*                                                                         *)
(* Numbers.  A JavaScript number is modelled as an exact rational          *)
(* [n |-> numerator, d |-> denominator] in lowest terms, extended with the *)
(* IEEE-754 special values the code can produce: Infinity (n = 1, d = 0)   *)
(* and NaN (n = 0, d = 0).  Rounding error of binary floating point is not *)
(* modelled; division by zero, Infinity and NaN are.                       *)
(*                                                                         *)
(* Strings.  JavaScript strings are TLA+ strings; toLowerCase, trim and    *)
(* includes are computed character by character.                           *)
(***************************************************************************)
EXTENDS Integers, Sequences, FiniteSets, TLC

VARIABLES
  productData,  \* the product observation a fallback computation is run on
  calc,         \* the implementation that ran last and what it returned
  normIn,       \* the argument of normalizeCountryName
  normOut,      \* normalizeCountryName(normIn)
  normOut2,     \* normalizeCountryName(normalizeCountryName(normIn))
  tariffCache,  \* the tariffCache object: data and timestamp
  now,          \* Date.now()
  calls,        \* the getTariffInfo calls and where each one stands
  storedAt,     \* history: for each entry of tariffCache.data, when it was written
  popup,        \* the popup: check button, status line, position of the click handler
  page,         \* the active tab: its URL, whether the modal is shown, extraction faults
  exec,         \* per click: its 5-second timer and its injected check
  dom           \* the document: the modal elements in it, their timers, the load timer

calcVars == <<productData, calc>>
normVars == <<normIn, normOut, normOut2>>
apiVars == <<tariffCache, now, calls, storedAt>>
popupVars == <<popup, page, exec, dom>>
vars == <<productData, calc, normIn, normOut, normOut2, tariffCache, now, calls, storedAt,
          popup, page, exec, dom>>

-----------------------------------------------------------------------------
(* Bounds of the model *)

\* prices range over the half-dollar amounts 0, 0.5, 1, ... MaxPriceHalves / 2
MaxPriceHalves == 210

\* raw country names are padded with up to MaxPad blanks on each side
MaxPad == 1

\* number of getTariffInfo calls that can be in flight together
MaxCalls == 2

\* the clock reads StartNow + f * FETCH_DELAY + d * CACHE_DURATION + m with
\* f <= MaxFetchDelays, d <= MaxDays, m <= MaxMs
MaxFetchDelays == 1
MaxDays == 1
MaxMs == 1

\* number of clicks on the check button of the popup
MaxClicks == 2

\* number of modals that are created in one page
MaxModals == 3

\* the clock of the page reads up to MaxHalfMinutes half minutes after the load
MaxHalfMinutes == 3

-----------------------------------------------------------------------------
(* JavaScript numbers *)

RECURSIVE GCD(_, _)
GCD(a, b) == IF b = 0 THEN a ELSE GCD(b, a % b)

Abs(x) == IF x < 0 THEN 0 - x ELSE x

\* the number n / d (d > 0) in lowest terms
Rat(n, d) == LET g == GCD(Abs(n), d) IN [n |-> n \div g, d |-> d \div g]

Infinity == [n |-> 1, d |-> 0]
NaN == [n |-> 0, d |-> 0]
Zero == [n |-> 0, d |-> 1]
One == [n |-> 1, d |-> 1]

IsNaN(a) == a.d = 0 /\ a.n = 0
IsInf(a) == a.d = 0 /\ a.n # 0
IsFinite(a) == a.d # 0

\* a + b
NumAdd(a, b) ==
  IF IsNaN(a) \/ IsNaN(b) THEN NaN
  ELSE IF IsInf(a) \/ IsInf(b) THEN
    (IF IsInf(a) /\ IsInf(b) /\ a.n # b.n THEN NaN ELSE IF IsInf(a) THEN a ELSE b)
  ELSE Rat(a.n * b.d + b.n * a.d, a.d * b.d)

\* -a
NumNeg(a) == [n |-> 0 - a.n, d |-> a.d]

\* a - b
NumSub(a, b) == NumAdd(a, NumNeg(b))

Sign(x) == IF x > 0 THEN 1 ELSE IF x < 0 THEN 0 - 1 ELSE 0

\* a * b
NumMul(a, b) ==
  IF IsNaN(a) \/ IsNaN(b) THEN NaN
  ELSE IF IsInf(a) \/ IsInf(b) THEN
    (IF a.n = 0 \/ b.n = 0 THEN NaN ELSE [n |-> Sign(a.n) * Sign(b.n), d |-> 0])
  ELSE Rat(a.n * b.n, a.d * b.d)

\* a / b
NumDiv(a, b) ==
  IF IsNaN(a) \/ IsNaN(b) THEN NaN
  ELSE IF IsInf(a) THEN (IF IsInf(b) THEN NaN ELSE [n |-> a.n * (IF b.n < 0 THEN 0 - 1 ELSE 1), d |-> 0])
  ELSE IF IsInf(b) THEN Zero
  ELSE IF b.n = 0 THEN (IF a.n = 0 THEN NaN ELSE [n |-> Sign(a.n), d |-> 0])
  ELSE Rat(a.n * b.d * Sign(b.n), a.d * Abs(b.n))

\* a === b (NaN is equal to nothing)
NumEq(a, b) == ~IsNaN(a) /\ ~IsNaN(b) /\ a = b

\* a < b, a > b, a >= b, a <= b (every comparison with NaN is false)
NumLt(a, b) ==
  /\ ~IsNaN(a) /\ ~IsNaN(b)
  /\ a # b
  /\ IF IsInf(a) THEN a.n < 0
     ELSE IF IsInf(b) THEN b.n > 0
     ELSE a.n * b.d < b.n * a.d
NumGt(a, b) == NumLt(b, a)
NumLe(a, b) == NumLt(a, b) \/ NumEq(a, b)
NumGe(a, b) == NumLe(b, a)

-----------------------------------------------------------------------------
(* JavaScript strings *)

UpperLetters == "ABCDEFGHIJKLMNOPQRSTUVWXYZ"
LowerLetters == "abcdefghijklmnopqrstuvwxyz"

CharAt(s, i) == SubSeq(s, i, i)

\* String.prototype.toLowerCase on one character
LowerMap == [c \in {CharAt(UpperLetters, i) : i \in 1..26} |->
               CharAt(LowerLetters, CHOOSE i \in 1..26 : CharAt(UpperLetters, i) = c)]
LowerChar(c) == IF c \in DOMAIN LowerMap THEN LowerMap[c] ELSE c

\* String.prototype.toLowerCase
RECURSIVE toLowerCase(_)
toLowerCase(s) ==
  IF Len(s) = 0 THEN "" ELSE LowerChar(CharAt(s, 1)) \o toLowerCase(SubSeq(s, 2, Len(s)))

IsSpace(c) == c = " "

\* String.prototype.trim
RECURSIVE trimStart(_)
trimStart(s) ==
  IF Len(s) > 0 /\ IsSpace(CharAt(s, 1)) THEN trimStart(SubSeq(s, 2, Len(s))) ELSE s
RECURSIVE trimEnd(_)
trimEnd(s) ==
  IF Len(s) > 0 /\ IsSpace(CharAt(s, Len(s))) THEN trimEnd(SubSeq(s, 1, Len(s) - 1)) ELSE s
trim(s) == trimEnd(trimStart(s))

\* String.prototype.includes
includes(s, sub) ==
  \E i \in 1..(Len(s) - Len(sub) + 1) : SubSeq(s, i, i + Len(sub) - 1) = sub

Digits == "0123456789"

\* decimal digits of a natural number
RECURSIVE NatToString(_)
NatToString(k) ==
  IF k < 10 THEN CharAt(Digits, k + 1)
  ELSE NatToString(k \div 10) \o CharAt(Digits, (k % 10) + 1)

Pow10(k) == IF k = 0 THEN 1 ELSE IF k = 1 THEN 10 ELSE 100

\* zero-padded fraction digits
PadFrac(f, digits) ==
  IF digits = 2 /\ f < 10 THEN "0" \o NatToString(f) ELSE NatToString(f)

\* Number.prototype.toFixed(digits) for a number >= 0, digits in {1, 2}
toFixed(a, digits) ==
  IF IsNaN(a) THEN "NaN"
  ELSE IF IsInf(a) THEN "Infinity"
  ELSE LET scaled == (2 * a.n * Pow10(digits) + a.d) \div (2 * a.d)
       IN NatToString(scaled \div Pow10(digits)) \o "." \o PadFrac(scaled % Pow10(digits), digits)

-----------------------------------------------------------------------------
(* scripts/content.js: fallbackCalculation *)

Num(k) == [n |-> k, d |-> 1]

\* a food predicate that forgets the 'produce' keyword
isFoodCategory_withoutProduce(category) ==
  includes(category, "food") \/ includes(category, "vegetable") \/ includes(category, "fruit")

\* the category predicates the rule table uses
isFoodCategory(category) ==
  includes(category, "food") \/ includes(category, "produce") \/
  includes(category, "vegetable") \/ includes(category, "fruit")

isEnergyCategory(category) ==
  includes(category, "energy") \/ includes(category, "oil") \/
  includes(category, "gas") \/ includes(category, "potash")

isChinaCountry(country) == includes(country, "china") \/ includes(country, "hong kong")

\* a threshold that counts a price of exactly 100 as postal
content_isPostalShipment_inclusive(price, category) ==
  NumLe(price, Num(100)) /\ ~includes(category, "electronics") /\ ~includes(category, "appliance")

content_isPostalShipment(price, category) ==
  NumLt(price, Num(100)) /\ ~includes(category, "electronics") /\ ~includes(category, "appliance")

\* a comparison that selects the lower of the two postal options
content_chinaPostalRule_lowerOption(price) ==
  IF NumLt(NumMul(price, Rat(120, 100)), Num(100))
  THEN [tariffRate |-> Rat(120, 100),
        message |-> "This product from China is subject to a 120% tariff rate as a postal shipment under the May 2025 trade policy",
        isSubjectToTariff |-> TRUE]
  ELSE [tariffRate |-> NumDiv(Num(100), price),
        message |-> "This product from China is subject to a $100 flat fee as a postal shipment under the May 2025 trade policy (equivalent to a "
                    \o toFixed(NumMul(NumDiv(Num(100), price), Num(100)), 1) \o "% rate)",
        isSubjectToTariff |-> TRUE]

\* China / Hong Kong branch, postal shipment
content_chinaPostalRule(price) ==
  LET flatFeeTariff == Num(100)
      percentTariff == NumMul(price, Rat(120, 100))
  IN IF NumGt(percentTariff, flatFeeTariff)
     THEN [tariffRate |-> Rat(120, 100),
           message |-> "This product from China is subject to a 120% tariff rate as a postal shipment under the May 2025 trade policy",
           isSubjectToTariff |-> TRUE]
     ELSE LET rate == NumDiv(flatFeeTariff, price)
          IN [tariffRate |-> rate,
              message |-> "This product from China is subject to a $100 flat fee as a postal shipment under the May 2025 trade policy (equivalent to a "
                          \o toFixed(NumMul(rate, Num(100)), 1) \o "% rate)",
              isSubjectToTariff |-> TRUE]

\* a non-postal branch that applies the postal percentage rate
content_chinaNonPostalRule_postalRate ==
  [tariffRate |-> Rat(120, 100),
   message |-> "This product from China is subject to a total 125% tariff rate under the May 2025 trade policy (de minimis exemption removed)",
   isSubjectToTariff |-> TRUE]

\* China / Hong Kong branch, non-postal shipment
content_chinaNonPostalRule ==
  [tariffRate |-> Rat(125, 100),
   message |-> "This product from China is subject to a total 125% tariff rate under the May 2025 trade policy (de minimis exemption removed)",
   isSubjectToTariff |-> TRUE]

\* China / Hong Kong branch
content_chinaRule(price, isPostalShipment) ==
  IF isPostalShipment THEN content_chinaPostalRule(price) ELSE content_chinaNonPostalRule

\* Mexico branch
content_mexicoRule(category) ==
  IF isFoodCategory(category)
  THEN [tariffRate |-> Zero,
        message |-> "This product appears to qualify for USMCA exemption (0% tariff)",
        isSubjectToTariff |-> FALSE]
  ELSE [tariffRate |-> Rat(25, 100),
        message |-> "This product from Mexico is subject to a 25% tariff on non-USMCA compliant goods",
        isSubjectToTariff |-> TRUE]

\* a Canada branch that tests the energy keywords before the food keywords
content_canadaRule_energyFirst(category) ==
  IF isEnergyCategory(category)
  THEN [tariffRate |-> Rat(10, 100),
        message |-> "This product from Canada is subject to a 10% tariff (energy/potash non-USMCA rate)",
        isSubjectToTariff |-> TRUE]
  ELSE IF isFoodCategory(category)
  THEN [tariffRate |-> Zero,
        message |-> "This product appears to qualify for USMCA exemption (0% tariff)",
        isSubjectToTariff |-> FALSE]
  ELSE [tariffRate |-> Rat(25, 100),
        message |-> "This product from Canada is subject to a 25% tariff on non-USMCA compliant goods",
        isSubjectToTariff |-> TRUE]

\* Canada branch
content_canadaRule(category) ==
  IF isFoodCategory(category)
  THEN [tariffRate |-> Zero,
        message |-> "This product appears to qualify for USMCA exemption (0% tariff)",
        isSubjectToTariff |-> FALSE]
  ELSE IF isEnergyCategory(category)
  THEN [tariffRate |-> Rat(10, 100),
        message |-> "This product from Canada is subject to a 10% tariff (energy/potash non-USMCA rate)",
        isSubjectToTariff |-> TRUE]
  ELSE [tariffRate |-> Rat(25, 100),
        message |-> "This product from Canada is subject to a 25% tariff on non-USMCA compliant goods",
        isSubjectToTariff |-> TRUE]

\* the countries with one fixed rate: Japan, EU, Vietnam, South Korea, Taiwan, UK, India;
\* isSubjectToTariff = FALSE in the result means that no branch matched
fixedRateRule(country) ==
  IF includes(country, "japan")
  THEN [tariffRate |-> Rat(10, 100),
        message |-> "This product from Japan is subject to a 10% tariff rate under the May 2025 trade policy",
        isSubjectToTariff |-> TRUE]
  ELSE IF includes(country, "germany") \/ includes(country, "european union") \/
          includes(country, "eu") \/ includes(country, "france") \/
          includes(country, "italy") \/ includes(country, "spain")
  THEN [tariffRate |-> Rat(20, 100),
        message |-> "This product from the European Union is subject to a 20% tariff rate under the May 2025 trade policy",
        isSubjectToTariff |-> TRUE]
  ELSE IF includes(country, "vietnam")
  THEN [tariffRate |-> Rat(46, 100),
        message |-> "This product from Vietnam is subject to a 46% tariff rate under the May 2025 trade policy",
        isSubjectToTariff |-> TRUE]
  ELSE IF includes(country, "south korea") \/ includes(country, "korea")
  THEN [tariffRate |-> Rat(25, 100),
        message |-> "This product from South Korea is subject to a 25% tariff rate under the May 2025 trade policy",
        isSubjectToTariff |-> TRUE]
  ELSE IF includes(country, "taiwan")
  THEN [tariffRate |-> Rat(32, 100),
        message |-> "This product from Taiwan is subject to a 32% tariff rate under the May 2025 trade policy",
        isSubjectToTariff |-> TRUE]
  ELSE IF includes(country, "united kingdom") \/ includes(country, "uk")
  THEN [tariffRate |-> Rat(10, 100),
        message |-> "This product from the UK is subject to a 10% tariff rate under the May 2025 trade policy",
        isSubjectToTariff |-> TRUE]
  ELSE IF includes(country, "india")
  THEN [tariffRate |-> Rat(40, 100),
        message |-> "This product from India is subject to a 40% tariff rate under the May 2025 trade policy",
        isSubjectToTariff |-> TRUE]
  ELSE [tariffRate |-> Zero, message |-> "", isSubjectToTariff |-> FALSE]

\* country === 'unknown' branch
content_unknownRule(price, category) ==
  IF NumLt(price, Num(50)) /\
     (includes(category, "electronics") \/ includes(category, "home") \/
      includes(category, "light") \/ includes(category, "tool"))
  THEN [tariffRate |-> Rat(125, 100),
        message |-> "Based on the product type and price, this is likely from China and subject to a 125% tariff rate",
        isSubjectToTariff |-> TRUE]
  ELSE [tariffRate |-> Rat(10, 100),
        message |-> "Country of origin unknown, applying the minimum baseline 10% tariff",
        isSubjectToTariff |-> TRUE]

\* all other countries
baselineRule(country) ==
  [tariffRate |-> Rat(10, 100),
   message |-> "Products from " \o country \o " are subject to the universal 10% baseline tariff implemented in May 2025",
   isSubjectToTariff |-> TRUE]

\* the if / else-if chain over the country
content_resolveRate(country, price, category, isPostalShipment) ==
  IF isChinaCountry(country) THEN content_chinaRule(price, isPostalShipment)
  ELSE IF includes(country, "mexico") THEN content_mexicoRule(category)
  ELSE IF includes(country, "canada") THEN content_canadaRule(category)
  ELSE IF fixedRateRule(country).isSubjectToTariff THEN fixedRateRule(country)
  ELSE IF country = "unknown" THEN content_unknownRule(price, category)
  ELSE baselineRule(country)

\* fallbackCalculation(productData) of content.js: the returned object and
\* the local isPostalShipment
content_fallbackCalculation(pd) ==
  LET country == toLowerCase(pd.countryOfOrigin)
      price == pd.price
      category == toLowerCase(pd.category)
      isPostalShipment == content_isPostalShipment(price, category)
      rule == content_resolveRate(country, price, category, isPostalShipment)
      preTariffPrice == NumDiv(price, NumAdd(One, rule.tariffRate))
      tariffAmount == NumSub(price, preTariffPrice)
  IN [result |-> [isSubjectToTariff |-> rule.isSubjectToTariff,
                  tariffRate |-> rule.tariffRate,
                  preTariffPrice |-> preTariffPrice,
                  tariffAmount |-> tariffAmount,
                  message |-> rule.message,
                  isFallback |-> TRUE],
      isPostalShipment |-> isPostalShipment]

-----------------------------------------------------------------------------
(* scripts/content-injection.js: fallbackCalculation *)

\* a postal inference with the threshold at 50
injection_isPostalShipment_below50(price, category) ==
  NumLt(price, Num(50)) /\ ~includes(category, "electronics") /\ ~includes(category, "appliance")

injection_isPostalShipment(price, category) ==
  NumLt(price, Num(100)) /\ ~includes(category, "electronics") /\ ~includes(category, "appliance")

\* the locals a branch of the country chain leaves behind when it assigns
\* only tariffRate, isSubjectToTariff and message
injection_locals(rule) ==
  [tariffRate |-> rule.tariffRate,
   message |-> rule.message,
   isSubjectToTariff |-> rule.isSubjectToTariff,
   isUsingFlatFee |-> FALSE,
   flatFeeAmount |-> Zero,
   preTariffPrice |-> Zero,
   tariffAmount |-> Zero,
   specialPriceLogic |-> FALSE]

\* China / Hong Kong branch, postal shipment
injection_chinaPostalRule(price) ==
  LET percentTariffRate == Rat(120, 100)
      flatFeeTariff == Num(100)
      normalPreTariffPrice == NumDiv(price, NumAdd(One, percentTariffRate))
      percentTariffAmount == NumSub(price, normalPreTariffPrice)
  IN IF NumGt(percentTariffAmount, flatFeeTariff)
     THEN [tariffRate |-> percentTariffRate,
           message |-> "This product from China is subject to a 120% tariff rate as a postal shipment under the May 2025 trade policy",
           isSubjectToTariff |-> TRUE,
           isUsingFlatFee |-> FALSE,
           flatFeeAmount |-> Zero,
           preTariffPrice |-> normalPreTariffPrice,
           tariffAmount |-> percentTariffAmount,
           specialPriceLogic |-> FALSE]
     ELSE IF NumGt(flatFeeTariff, price)
     THEN LET tariffAmount == NumMul(price, Rat(7, 10))
          IN [tariffRate |-> Zero,
              message |-> "This product from China would normally be subject to a $100 flat fee tariff, but since the product price is only $"
                          \o toFixed(price, 2)
                          \o ", the tariff shown is an approximation. The actual $100 flat fee would be applied at customs for direct imports.",
              isSubjectToTariff |-> TRUE,
              isUsingFlatFee |-> TRUE,
              flatFeeAmount |-> tariffAmount,
              preTariffPrice |-> NumSub(price, tariffAmount),
              tariffAmount |-> tariffAmount,
              specialPriceLogic |-> TRUE]
     ELSE [tariffRate |-> Zero,
           message |-> "This product from China is subject to a $100 flat fee as a postal shipment under the May 2025 trade policy",
           isSubjectToTariff |-> TRUE,
           isUsingFlatFee |-> TRUE,
           flatFeeAmount |-> flatFeeTariff,
           preTariffPrice |-> NumSub(price, flatFeeTariff),
           tariffAmount |-> flatFeeTariff,
           specialPriceLogic |-> FALSE]

\* a non-postal China branch with the rate of 145%
injection_chinaNonPostalRule_rate145(price) ==
  LET tariffRate == Rat(145, 100)
      preTariffPrice == NumDiv(price, NumAdd(One, tariffRate))
  IN [tariffRate |-> tariffRate,
      message |-> "This product from China is subject to a total 145% tariff rate",
      isSubjectToTariff |-> TRUE,
      isUsingFlatFee |-> FALSE,
      flatFeeAmount |-> Zero,
      preTariffPrice |-> preTariffPrice,
      tariffAmount |-> NumSub(price, preTariffPrice),
      specialPriceLogic |-> FALSE]

\* China / Hong Kong branch, non-postal shipment
injection_chinaNonPostalRule(price) ==
  LET tariffRate == Rat(125, 100)
      preTariffPrice == NumDiv(price, NumAdd(One, tariffRate))
  IN [tariffRate |-> tariffRate,
      message |-> "This product from China is subject to a total 125% tariff rate under the May 2025 trade policy (de minimis exemption removed)",
      isSubjectToTariff |-> TRUE,
      isUsingFlatFee |-> FALSE,
      flatFeeAmount |-> Zero,
      preTariffPrice |-> preTariffPrice,
      tariffAmount |-> NumSub(price, preTariffPrice),
      specialPriceLogic |-> FALSE]

\* China / Hong Kong branch
injection_chinaRule(price, isPostalShipment) ==
  IF isPostalShipment THEN injection_chinaPostalRule(price) ELSE injection_chinaNonPostalRule(price)

\* Mexico branch
injection_mexicoRule(category) ==
  IF isFoodCategory(category)
  THEN [tariffRate |-> Zero,
        message |-> "This product appears to qualify for USMCA exemption (0% tariff)",
        isSubjectToTariff |-> FALSE]
  ELSE [tariffRate |-> Rat(25, 100),
        message |-> "This product from Mexico is subject to a 25% tariff on non-USMCA compliant goods",
        isSubjectToTariff |-> TRUE]

\* Canada branch
injection_canadaRule(category) ==
  IF isFoodCategory(category)
  THEN [tariffRate |-> Zero,
        message |-> "This product appears to qualify for USMCA exemption (0% tariff)",
        isSubjectToTariff |-> FALSE]
  ELSE IF isEnergyCategory(category)
  THEN [tariffRate |-> Rat(10, 100),
        message |-> "This product from Canada is subject to a 10% tariff (energy/potash non-USMCA rate)",
        isSubjectToTariff |-> TRUE]
  ELSE [tariffRate |-> Rat(25, 100),
        message |-> "This product from Canada is subject to a 25% tariff on non-USMCA compliant goods",
        isSubjectToTariff |-> TRUE]

\* country === 'unknown' branch
injection_unknownRule ==
  [tariffRate |-> Rat(10, 100),
   message |-> "Country of origin unknown, applying the minimum baseline 10% tariff",
   isSubjectToTariff |-> TRUE]

\* the if / else-if chain over the country
injection_resolveRate(country, price, category, isPostalShipment) ==
  IF isChinaCountry(country) THEN injection_chinaRule(price, isPostalShipment)
  ELSE IF includes(country, "mexico") THEN injection_locals(injection_mexicoRule(category))
  ELSE IF includes(country, "canada") THEN injection_locals(injection_canadaRule(category))
  ELSE IF fixedRateRule(country).isSubjectToTariff THEN injection_locals(fixedRateRule(country))
  ELSE IF country = "unknown" THEN injection_locals(injection_unknownRule)
  ELSE injection_locals(baselineRule(country))

\* a recomputation that adds the tariff to the price instead of taking it out
injection_decompose_addsTariff(price, l) ==
  IF ~l.isUsingFlatFee /\ NumEq(l.tariffAmount, Zero)
  THEN LET preTariffPrice == NumMul(price, NumAdd(One, l.tariffRate))
       IN [l EXCEPT !.preTariffPrice = preTariffPrice,
                    !.tariffAmount = NumSub(price, preTariffPrice)]
  ELSE l

\* the final "if (!isUsingFlatFee && tariffAmount === 0)" recomputation
injection_decompose(price, l) ==
  IF ~l.isUsingFlatFee /\ NumEq(l.tariffAmount, Zero)
  THEN LET preTariffPrice == NumDiv(price, NumAdd(One, l.tariffRate))
       IN [l EXCEPT !.preTariffPrice = preTariffPrice,
                    !.tariffAmount = NumSub(price, preTariffPrice)]
  ELSE l

\* fallbackCalculation(productData) of content-injection.js: the returned
\* object and the local isPostalShipment
injection_fallbackCalculation(pd) ==
  LET country == toLowerCase(pd.countryOfOrigin)
      price == pd.price
      category == toLowerCase(pd.category)
      isPostalShipment == injection_isPostalShipment(price, category)
      l == injection_decompose(price, injection_resolveRate(country, price, category, isPostalShipment))
  IN [result |-> [isSubjectToTariff |-> l.isSubjectToTariff,
                  tariffRate |-> l.tariffRate,
                  preTariffPrice |-> l.preTariffPrice,
                  tariffAmount |-> l.tariffAmount,
                  message |-> l.message,
                  isFallback |-> TRUE,
                  isUsingFlatFee |-> l.isUsingFlatFee,
                  flatFeeAmount |-> l.flatFeeAmount,
                  specialPriceLogic |-> l.specialPriceLogic],
      isPostalShipment |-> isPostalShipment]

-----------------------------------------------------------------------------
(* tariff API connector: normalizeCountryName *)

\* JavaScript values that a country name can be: a string, or one of the
\* two objects a lower-cased property name finds on Object.prototype
JSString(s) == [t |-> "string", v |-> s]
JSObjectConstructor == [t |-> "function", v |-> "function Object() { [native code] }"]
JSObjectPrototype == [t |-> "object", v |-> "[object Object]"]
JSTypeError == [t |-> "throw", v |-> "TypeError"]

\* the own properties of the object literal countryMap, in source order
countryMap ==
  << <<"cn", "china">>, <<"prc", "china">>, <<"people's republic of china", "china">>,
     <<"usa", "united states">>, <<"us", "united states">>, <<"u.s.", "united states">>,
     <<"u.s.a.", "united states">>, <<"america", "united states">>,
     <<"uk", "united kingdom">>, <<"great britain", "united kingdom">>,
     <<"deutschland", "germany">>, <<"vn", "vietnam">>, <<"kr", "south korea">>,
     <<"dprk", "north korea">>, <<"roc", "taiwan">>, <<"taipei", "taiwan">>,
     <<"mx", "mexico">>, <<"ca", "canada">>, <<"jp", "japan">>, <<"sk", "south korea">>,
     <<"republic of korea", "south korea">>, <<"my", "malaysia">>, <<"th", "thailand">>,
     <<"id", "indonesia">>, <<"in", "india">>, <<"br", "brazil">>, <<"de", "germany">>,
     <<"fr", "france">>, <<"it", "italy">>, <<"es", "spain">>, <<"se", "sweden">>,
     <<"pl", "poland">>, <<"tr", "turkey">>, <<"turkiye", "turkey">>, <<"ru", "russia">>,
     <<"russian federation", "russia">>, <<"viet nam", "vietnam">> >>

countryMapKeys == {countryMap[i][1] : i \in DOMAIN countryMap}
countryMapValues == {countryMap[i][2] : i \in DOMAIN countryMap}

\* countryMap[key]: an own property, else a property inherited from
\* Object.prototype, else undefined (modelled as the empty string, which is
\* falsy like undefined)
countryMapGet(key) ==
  IF key \in countryMapKeys
  THEN JSString(countryMap[CHOOSE i \in DOMAIN countryMap : countryMap[i][1] = key][2])
  ELSE IF key = "constructor" THEN JSObjectConstructor
  ELSE IF key = "__proto__" THEN JSObjectPrototype
  ELSE JSString("")

\* truthiness of a JavaScript value
truthy(x) == ~(x.t = "string" /\ x.v = "")

\* normalizeCountryName with the trim() left out
normalizeCountryName_withoutTrim(countryName) ==
  IF ~truthy(countryName) THEN JSString("")
  ELSE IF countryName.t # "string" THEN JSTypeError
  ELSE LET normalized == toLowerCase(countryName.v)
       IN IF truthy(countryMapGet(normalized)) THEN countryMapGet(normalized)
          ELSE JSString(normalized)

\* normalizeCountryName(countryName); a non-string truthy argument has no
\* toLowerCase method, so the call throws a TypeError
normalizeCountryName(countryName) ==
  IF ~truthy(countryName) THEN JSString("")
  ELSE IF countryName.t # "string" THEN JSTypeError
  ELSE LET normalized == trim(toLowerCase(countryName.v))
       IN IF truthy(countryMapGet(normalized)) THEN countryMapGet(normalized)
          ELSE JSString(normalized)

-----------------------------------------------------------------------------
(* tariff API connector: fallbackTariffCheck *)

FallbackMsg(text) == "Using fallback data: " \o text

\* the if / else-if chain of fallbackTariffCheck over the normalized country
fallbackRate(country) ==
  LET c == IF country.t = "string" THEN country.v ELSE "<not a string>"
      rule(rate, text) == [tariffRate |-> rate, message |-> FallbackMsg(text), isSubjectToTariff |-> TRUE]
  IN IF country.t # "string"
     THEN rule(Rat(10, 100), "Products from " \o country.v \o " are subject to the universal 10% baseline tariff implemented in April 2025")
     ELSE IF c = "china"
     THEN rule(Rat(54, 100), "This product from China is subject to a combined 54% tariff rate (34% reciprocal + 20% existing tariffs)")
     ELSE IF c = "japan"
     THEN rule(Rat(10, 100), "This product from Japan is subject to a 10% baseline tariff rate under the April 2025 tariff policy (reduced from 24% for 90 days)")
     ELSE IF c = "south korea" \/ c = "korea"
     THEN rule(Rat(25, 100), "This product from South Korea is subject to a 25% tariff rate under the April 2025 tariff policy")
     ELSE IF c = "taiwan"
     THEN rule(Rat(32, 100), "This product from Taiwan is subject to a 32% tariff rate under the April 2025 tariff policy")
     ELSE IF c = "european union" \/ c = "eu" \/ c = "germany" \/ c = "france" \/ c = "italy" \/ c = "spain"
     THEN rule(Rat(20, 100), "This product from the European Union is subject to a 20% tariff rate under the April 2025 tariff policy")
     ELSE IF c = "vietnam"
     THEN rule(Rat(46, 100), "This product from Vietnam is subject to a 46% tariff rate under the April 2025 tariff policy")
     ELSE IF c = "india"
     THEN rule(Rat(40, 100), "This product from India is subject to a 40% tariff rate under the April 2025 tariff policy")
     ELSE IF c = "brazil"
     THEN rule(Rat(10, 100), "This product from Brazil is subject to a 10% tariff rate under the April 2025 tariff policy")
     ELSE IF c = "indonesia"
     THEN rule(Rat(32, 100), "This product from Indonesia is subject to a 32% tariff rate under the April 2025 tariff policy")
     ELSE IF c = "thailand"
     THEN rule(Rat(20, 100), "This product from Thailand is subject to a 20% tariff rate under the April 2025 tariff policy")
     ELSE IF c = "malaysia"
     THEN rule(Rat(25, 100), "This product from Malaysia is subject to a 25% tariff rate under the April 2025 tariff policy")
     ELSE IF c = "mexico" \/ c = "canada"
     THEN rule(Rat(25, 100), "This product from " \o c \o " is subject to a 25% tariff under the 2025 USMCA revisions")
     ELSE IF c = "united kingdom" \/ c = "uk"
     THEN rule(Rat(10, 100), "This product from the UK is subject to a 10% tariff rate under the April 2025 tariff policy")
     ELSE IF c = "australia"
     THEN rule(Rat(10, 100), "This product from Australia is subject to a 10% tariff rate under the April 2025 tariff policy")
     ELSE IF c = "unknown"
     THEN rule(Rat(10, 100), "Country of origin unknown, applying the minimum baseline 10% tariff")
     ELSE rule(Rat(10, 100), "Products from " \o c \o " are subject to the universal 10% baseline tariff implemented in April 2025")

\* fallbackTariffCheck(productData)
fallbackTariffCheck(pd) ==
  LET country == normalizeCountryName(JSString(pd.countryOfOrigin))
      price == pd.price
      rule == fallbackRate(country)
      preTariffPrice == NumDiv(price, NumAdd(One, rule.tariffRate))
      tariffAmount == NumSub(price, preTariffPrice)
  IN [isSubjectToTariff |-> rule.isSubjectToTariff,
      tariffRate |-> rule.tariffRate,
      preTariffPrice |-> preTariffPrice,
      tariffAmount |-> tariffAmount,
      message |-> rule.message,
      isFallback |-> TRUE]

-----------------------------------------------------------------------------
(* tariff API connector: classification helpers *)

\* [A-Za-z0-9_], the word characters of a regular expression
IsWordChar(c) ==
  \E i \in 1..26 : c = CharAt(LowerLetters, i) \/ c = CharAt(UpperLetters, i)
                   \/ (i <= 10 /\ c = CharAt(Digits, i)) \/ c = "_"

\* new RegExp('\\b' + word + '\\b', 'i').test(text) for a word that begins
\* and ends with a word character
matchesWord(text, word) ==
  LET t == toLowerCase(text)
  IN \E i \in 1..(Len(t) - Len(word) + 1) :
       /\ SubSeq(t, i, i + Len(word) - 1) = word
       /\ (i = 1 \/ ~IsWordChar(CharAt(t, i - 1)))
       /\ (i + Len(word) - 1 = Len(t) \/ ~IsWordChar(CharAt(t, i + Len(word))))

\* /a|b|c/i.test(text)
matchesAny(text, words) == \E w \in words : includes(toLowerCase(text), w)

\* the own properties of the object literal categoryMap, in source order
categoryMap ==
  << <<"electronics", "85">>, <<"headphones", "8518.30">>, <<"computers", "8471">>,
     <<"laptops", "8471.30">>, <<"tablets", "8471.30">>, <<"cell phones", "8517.12">>,
     <<"smartphone", "8517.12">>, <<"tvs", "8528.72">>, <<"television", "8528.72">>,
     <<"monitors", "8528.52">>, <<"printers", "8443.31">>, <<"cameras", "8525.80">>,
     <<"clothing", "61">>, <<"apparel", "61">>, <<"shirts", "6105">>,
     <<"t-shirts", "6109.10">>, <<"pants", "6203">>, <<"socks", "6115">>,
     <<"shoes", "64">>, <<"footwear", "64">>, <<"boots", "6403">>, <<"sneakers", "6404">>,
     <<"furniture", "94">>, <<"chairs", "9401">>, <<"tables", "9403">>,
     <<"lamps", "9405">>, <<"kitchenware", "7323">>, <<"cookware", "7323">>,
     <<"cutlery", "8211">>, <<"bedding", "6302">>, <<"towels", "6302">>, <<"toys", "95">>,
     <<"games", "9504">>, <<"sporting goods", "9506">>, <<"books", "4901">>,
     <<"jewelry", "7113">>, <<"watches", "9102">>, <<"cosmetics", "3304">>,
     <<"beauty", "33">>, <<"perfume", "3303">>, <<"tools", "8205">>,
     <<"hardware", "8302">>, <<"automotive", "8708">>, <<"pet supplies", "4201">>,
     <<"luggage", "4202">>, <<"bags", "4202">>, <<"food", "21">>, <<"coffee", "0901">>,
     <<"tea", "0902">> >>

categoryMapKeys == {categoryMap[i][1] : i \in DOMAIN categoryMap}

\* categoryMap[key]: an own property, or a property that the object literal
\* inherits from Object.prototype; JSString("") stands for undefined
categoryMapGet(key) ==
  IF key \in categoryMapKeys
  THEN JSString(categoryMap[CHOOSE i \in DOMAIN categoryMap : categoryMap[i][1] = key][2])
  ELSE IF key = "constructor" THEN JSObjectConstructor
  ELSE IF key = "__proto__" THEN JSObjectPrototype
  ELSE JSString("")

\* getCategoryHTSCode(category)
getCategoryHTSCode(category) ==
  IF category = "" THEN JSString("9999")
  ELSE LET normalized == trim(toLowerCase(category))
           partial == {i \in DOMAIN categoryMap : includes(normalized, categoryMap[i][1])}
           first(S) == CHOOSE i \in S : \A j \in S : i <= j
       IN IF truthy(categoryMapGet(normalized)) THEN categoryMapGet(normalized)
          ELSE IF partial # {} THEN JSString(categoryMap[first(partial)][2])
          ELSE JSString("9999")

\* the own properties of the object literal keywordMap, in source order;
\* each key is split at '|' into its alternatives
keywordMap ==
  << << <<"phone", "smartphone", "mobile phone">>, "8517.12" >>,
     << <<"laptop", "notebook computer">>, "8471.30" >>,
     << <<"desktop computer", "pc tower">>, "8471.41" >>,
     << <<"tablet", "ipad">>, "8471.30" >>,
     << <<"tv", "television", "smart tv">>, "8528.72" >>,
     << <<"monitor", "computer screen">>, "8528.52" >>,
     << <<"earbuds", "headphones", "earphones">>, "8518.30" >>,
     << <<"speaker", "audio speaker">>, "8518.22" >>,
     << <<"camera", "digital camera">>, "8525.80" >>,
     << <<"battery", "rechargeable">>, "8507" >>,
     << <<"charger", "power adapter">>, "8504.40" >>,
     << <<"cable", "usb cable">>, "8544.42" >>, << <<"printer", "scanner">>, "8443.31" >>,
     << <<"shirt", "tshirt", "top">>, "6109" >>,
     << <<"pants", "trousers", "jeans">>, "6203" >>, << <<"shorts">>, "6204" >>,
     << <<"dress", "gown">>, "6204" >>, << <<"jacket", "coat">>, "6201" >>,
     << <<"sweater", "pullover">>, "6110" >>, << <<"underwear", "briefs">>, "6107" >>,
     << <<"socks">>, "6115" >>, << <<"shoes", "footwear">>, "6404" >>,
     << <<"boots">>, "6403" >>, << <<"hat", "cap">>, "6505" >>, << <<"gloves">>, "6116" >>,
     << <<"scarf">>, "6117" >>, << <<"chair", "stool">>, "9401" >>,
     << <<"table", "desk">>, "9403" >>, << <<"bed", "mattress">>, "9404" >>,
     << <<"sofa", "couch">>, "9401.61" >>, << <<"lamp", "lighting">>, "9405" >>,
     << <<"curtain", "drapes">>, "6303" >>, << <<"rug", "carpet">>, "5705" >>,
     << <<"blanket", "throw">>, "6301" >>, << <<"towel">>, "6302" >>,
     << <<"plates", "dishes">>, "6911" >>, << <<"cookware", "pots", "pans">>, "7323" >>,
     << <<"utensils", "flatware">>, "8215" >>, << <<"knife", "knives">>, "8211" >>,
     << <<"coffee maker", "coffee machine", "coffee brewer">>, "8516.71" >>,
     << <<"coffee grinder">>, "8509.40" >>,
     << <<"coffee dripper", "pour over", "drip coffee">>, "7323.93" >>,
     << <<"coffee filter">>, "4823.20" >>,
     << <<"coffee server", "coffee carafe">>, "7013.37" >>,
     << <<"toy", "action figure">>, "9503" >>, << <<"game", "board game">>, "9504" >>,
     << <<"book", "novel">>, "4901" >>, << <<"backpack", "bag">>, "4202" >>,
     << <<"watch", "wristwatch">>, "9102" >>, << <<"jewelry", "necklace">>, "7113" >>,
     << <<"wallet", "purse">>, "4202" >>, << <<"sunglasses">>, "9004" >>,
     << <<"umbrella">>, "6601" >>, << <<"pen", "pencil">>, "9608" >>,
     << <<"paper", "notebook">>, "4820" >>,
     << <<"tool", "hammer", "screwdriver">>, "8205" >>,
     << <<"pet", "dog", "cat">>, "4201" >> >>

\* productData.productTitle + ' ' + productData.description; the extractor
\* delivers no description
combinedText(pd) == pd.productTitle \o " " \o ""

\* getHTSCodeFromKeywords(productData)
getHTSCodeFromKeywords(pd) ==
  LET matching == {i \in DOMAIN keywordMap :
                     \E a \in DOMAIN keywordMap[i][1] : matchesWord(combinedText(pd), keywordMap[i][1][a])}
  IN IF matching # {} THEN keywordMap[CHOOSE i \in matching : \A j \in matching : i <= j][2]
     ELSE "9999"

\* determineHTSCode(productData)
determineHTSCode(pd) ==
  LET basicCode == getCategoryHTSCode(pd.category)
  IN IF basicCode # JSString("9999") THEN basicCode ELSE JSString(getHTSCodeFromKeywords(pd))

materials ==
  <<"cotton", "wool", "silk", "leather", "plastic", "metal", "aluminum",
    "steel", "wood", "glass", "ceramic", "rubber", "polyester", "nylon">>

\* materials.join('-') over the materials found, in list order
RECURSIVE joinMaterials(_, _)
joinMaterials(text, i) ==
  IF i > Len(materials) THEN ""
  ELSE LET rest == joinMaterials(text, i + 1)
       IN IF matchesWord(text, materials[i])
          THEN (IF rest = "" THEN materials[i] ELSE materials[i] \o "-" \o rest)
          ELSE rest

\* extractProductAttributes(productData); material is the joined list
\* ('' when the attribute is absent), gender is '' when absent
extractProductAttributes(pd) ==
  LET text == combinedText(pd)
      isApparel == matchesAny(text, {"shirt", "pants", "dress", "jacket", "coat", "sweater",
                                     "clothing", "wear", "apparel", "garment"})
  IN [material |-> joinMaterials(text, 1),
      isElectronic |-> matchesAny(text, {"electronic", "electrical", "battery", "powered",
                                         "rechargeable", "digital", "smart", "wifi", "bluetooth"}),
      isApparel |-> isApparel,
      gender |-> IF ~isApparel THEN ""
                 ELSE IF matchesAny(text, {"men", "man", "boy", "male"}) THEN "male"
                 ELSE IF matchesAny(text, {"women", "woman", "girl", "female"}) THEN "female"
                 ELSE "unisex",
      isFood |-> matchesAny(text, {"food", "edible", "organic", "snack", "beverage", "drink",
                                   "ingredient"})]

\* enrichProductData(productData)
enrichProductData(pd) ==
  [productTitle |-> pd.productTitle,
   price |-> pd.price,
   category |-> pd.category,
   countryOfOrigin |-> normalizeCountryName(JSString(pd.countryOfOrigin)),
   htsCode |-> determineHTSCode(pd),
   attributes |-> extractProductAttributes(pd)]

\* a cache key without the country of origin
constructCacheKey_withoutCountry(e) ==
  (IF truthy(e.htsCode) THEN e.htsCode.v ELSE "unknown")
  \o (IF e.attributes.material # "" THEN "-mat:" \o e.attributes.material ELSE "")
  \o (IF e.attributes.isElectronic THEN "-elec" ELSE "")
  \o (IF e.attributes.isApparel /\ e.attributes.gender # "" THEN "-app-" \o e.attributes.gender ELSE "")
  \o (IF e.attributes.isFood THEN "-food" ELSE "")

\* constructCacheKey(productData)
constructCacheKey(e) ==
  (IF truthy(e.countryOfOrigin) THEN e.countryOfOrigin.v ELSE "unknown")
  \o "-" \o (IF truthy(e.htsCode) THEN e.htsCode.v ELSE "unknown")
  \o (IF e.attributes.material # "" THEN "-mat:" \o e.attributes.material ELSE "")
  \o (IF e.attributes.isElectronic THEN "-elec" ELSE "")
  \o (IF e.attributes.isApparel /\ e.attributes.gender # "" THEN "-app-" \o e.attributes.gender ELSE "")
  \o (IF e.attributes.isFood THEN "-food" ELSE "")

-----------------------------------------------------------------------------
(* tariff API connector: the simulated tariff data *)

\* chapterRates, in hundredths
chapterRates ==
  << <<"61", 16>>, <<"62", 16>>, <<"64", 20>>, <<"42", 8>>, <<"85", 2>>, <<"84", 2>>,
     <<"90", 2>>, <<"95", 4>>, <<"71", 7>>, <<"39", 5>>, <<"94", 3>>, <<"73", 2>>,
     <<"48", 0>>, <<"49", 0>>, <<"82", 4>>, <<"87", 3>>, <<"33", 2>>, <<"69", 6>>,
     <<"70", 5>>, <<"83", 5>>, <<"96", 4>>, <<"44", 3>>, <<"63", 7>>, <<"65", 6>>,
     <<"91", 3>>, <<"92", 4>>, <<"09", 0>>, <<"21", 2>>, <<"22", 3>> >>

\* htsCode.substring(0, 2)
chapterOf(htsCode) == SubSeq(htsCode, 1, IF Len(htsCode) < 2 THEN Len(htsCode) ELSE 2)

\* getBaseTariffRate(htsCode): chapterRates[chapter] || 0.03
getBaseTariffRate(htsCode) ==
  LET found == {i \in DOMAIN chapterRates : chapterRates[i][1] = chapterOf(htsCode)}
  IN IF found # {} /\ chapterRates[CHOOSE i \in found : TRUE][2] # 0
     THEN Rat(chapterRates[CHOOSE i \in found : TRUE][2], 100)
     ELSE Rat(3, 100)

ftaCountries ==
  {"canada", "mexico", "australia", "bahrain", "chile", "colombia", "israel", "jordan",
   "morocco", "oman", "panama", "peru", "singapore"}

\* adjustTariffForCountry(baseRate, productData)
adjustTariffForCountry(baseRate, e) ==
  LET c == IF e.countryOfOrigin.t = "string" THEN e.countryOfOrigin.v ELSE "<not a string>"
      baseline == [rate |-> Rat(10, 100),
                   message |-> "Products from " \o e.countryOfOrigin.v
                               \o " are subject to the universal 10% baseline tariff implemented in April 2025"]
  IN IF c = "china"
     THEN [rate |-> Rat(54, 100), message |-> "This product from China is subject to a combined 54% tariff rate (34% reciprocal + 20% existing tariffs)"]
     ELSE IF c = "japan"
     THEN [rate |-> Rat(10, 100), message |-> "This product from Japan is subject to a 10% baseline tariff rate under the April 2025 tariff policy (reduced from 24% for 90 days)"]
     ELSE IF c = "south korea" \/ c = "korea"
     THEN [rate |-> Rat(25, 100), message |-> "This product from South Korea is subject to a 25% tariff rate under the April 2025 tariff policy"]
     ELSE IF c = "taiwan"
     THEN [rate |-> Rat(32, 100), message |-> "This product from Taiwan is subject to a 32% tariff rate under the April 2025 tariff policy"]
     ELSE IF c = "european union" \/ c = "eu" \/ c = "germany" \/ c = "france" \/ c = "italy" \/ c = "spain"
     THEN [rate |-> Rat(20, 100), message |-> "This product from the European Union is subject to a 20% tariff rate under the April 2025 tariff policy"]
     ELSE IF c = "vietnam"
     THEN [rate |-> Rat(46, 100), message |-> "This product from Vietnam is subject to a 46% tariff rate under the April 2025 tariff policy"]
     ELSE IF c = "india"
     THEN [rate |-> Rat(40, 100), message |-> "This product from India is subject to a 40% tariff rate under the April 2025 tariff policy"]
     ELSE IF c = "indonesia"
     THEN [rate |-> Rat(32, 100), message |-> "This product from Indonesia is subject to a 32% tariff rate under the April 2025 tariff policy"]
     ELSE IF c = "thailand"
     THEN [rate |-> Rat(20, 100), message |-> "This product from Thailand is subject to a 20% tariff rate under the April 2025 tariff policy"]
     ELSE IF c = "malaysia"
     THEN [rate |-> Rat(25, 100), message |-> "This product from Malaysia is subject to a 25% tariff rate under the April 2025 tariff policy"]
     ELSE IF c = "mexico" \/ c = "canada"
     THEN [rate |-> Rat(25, 100), message |-> "This product from " \o c \o " is subject to a 25% tariff under the 2025 USMCA revisions"]
     ELSE IF c \in ftaCountries THEN baseline
     ELSE baseline

\* applySpecialTariffs(rate, message, productData)
applySpecialTariffs(rate, message, e) ==
  [finalRate |-> rate, finalMessage |-> message, details |-> <<>>]

\* the value the timer callback of fetchTariffData resolves the promise
\* with; getBaseTariffRate calls htsCode.substring, which throws a TypeError
\* in the callback when htsCode is not a string
fetchTariffData(e) ==
  IF e.htsCode.t # "string" THEN JSTypeError
  ELSE LET baseTariff == getBaseTariffRate(e.htsCode.v)
           adjusted == adjustTariffForCountry(baseTariff, e)
           special == applySpecialTariffs(adjusted.rate, adjusted.message, e)
       IN [rate |-> special.finalRate,
           message |-> special.finalMessage,
           htsCode |-> e.htsCode,
           productDetails |-> special.details]

-----------------------------------------------------------------------------
(* The product observations the checks are run on *)

Prices == {Rat(h, 2) : h \in 0..MaxPriceHalves}

\* countryOfOrigin as the extractor delivers it (raw, not normalized)
Countries == {"China", "Hong Kong", "Mexico", "Canada", "Unknown", "Japan", "cn", "Peru"}

\* the last breadcrumb of the page ('' when there is none)
Categories ==
  {"", "Toys & Games", "Electronics", "Home Appliances", "Grocery & Gourmet Food",
   "Fresh Produce", "Seafood & Energy Drinks", "Oil & Gas", "Tools & Home Improvement",
   "Smart Lighting"}

ProductObservations ==
  [countryOfOrigin : Countries, price : Prices, category : Categories]

NoCalc == [impl |-> "none"]
NoValue == [t |-> "none", v |-> ""]

\* tariffCache as the module creates it
EmptyCache == [data |-> <<>>, timestamp |-> 0]

\* 24 * 60 * 60 * 1000 milliseconds
CACHE_DURATION == 86400000

\* the delay of the simulated API call, in milliseconds
FETCH_DELAY == 300

\* a reading of Date.now() when the script is loaded; like every real
\* reading it lies more than CACHE_DURATION after the epoch
StartNow == 100000000

NoCall == [pc |-> "idle"]

\* the API connector at rest
ApiAtRest ==
  /\ tariffCache = EmptyCache
  /\ now = StartNow
  /\ calls = [i \in 1..MaxCalls |-> NoCall]
  /\ storedAt = <<>>

\* no fallback computation and no normalization under way
CalcAtRest ==
  /\ productData = [countryOfOrigin |-> "Unknown", price |-> Zero, category |-> ""]
  /\ calc = NoCalc
NormAtRest ==
  /\ normIn = ""
  /\ normOut = NoValue
  /\ normOut2 = NoValue

NoResult == [t |-> "none"]
NoExec == [timer |-> "unset", injection |-> "none", result |-> NoResult]

\* the popup as popup.html shows it when it opens
OpenedPopup ==
  [disabled |-> FALSE, text |-> "Check Tariff", status |-> "", pc |-> "idle", click |-> 0,
   initialized |-> FALSE]

\* a document without a modal, whose load timer is pending
NoDom == [modals |-> <<>>, created |-> 0, timers |-> <<>>, autoCheck |-> "waiting"]

\* the popup just opened on a tab that is no Amazon page
PopupAtRest ==
  /\ popup = OpenedPopup
  /\ page = [url |-> "https://example.com/", modal |-> FALSE, fault |-> "none"]
  /\ exec = [k \in 1..MaxClicks |-> NoExec]
  /\ dom = NoDom

-----------------------------------------------------------------------------
(* Specification of the rate resolution and price decomposition: one       *)
(* product observation, on which each implementation is run                *)

InitCalc ==
  /\ productData \in ProductObservations
  /\ calc = NoCalc
  /\ NormAtRest
  /\ ApiAtRest
  /\ PopupAtRest

\* content.js computes the tariff of the observed product
RunContentCalculation ==
  /\ calc' = [impl |-> "content"] @@ content_fallbackCalculation(productData)
  /\ UNCHANGED <<productData, normVars, apiVars, popupVars>>

\* content-injection.js computes the tariff of the observed product
RunInjectionCalculation ==
  /\ calc' = [impl |-> "injection"] @@ injection_fallbackCalculation(productData)
  /\ UNCHANGED <<productData, normVars, apiVars, popupVars>>

\* the API connector's fallback computes the tariff of the observed product
RunFallbackTariffCheck ==
  /\ calc' = [impl |-> "fallbackTariffCheck", result |-> fallbackTariffCheck(productData)]
  /\ UNCHANGED <<productData, normVars, apiVars, popupVars>>

NextCalc == RunContentCalculation \/ RunInjectionCalculation \/ RunFallbackTariffCheck

SpecCalc == InitCalc /\ [][NextCalc]_vars

-----------------------------------------------------------------------------
(* Specification of normalizeCountryName: one raw country name, normalized *)
(* once and then once more                                                 *)


RECURSIVE Blanks(_)
Blanks(k) == IF k = 0 THEN "" ELSE " " \o Blanks(k - 1)

UpperMap == [c \in {CharAt(LowerLetters, i) : i \in 1..26} |->
               CharAt(UpperLetters, CHOOSE i \in 1..26 : CharAt(LowerLetters, i) = c)]
UpperChar(c) == IF c \in DOMAIN UpperMap THEN UpperMap[c] ELSE c

RECURSIVE toUpperCase(_)
toUpperCase(s) ==
  IF Len(s) = 0 THEN "" ELSE UpperChar(CharAt(s, 1)) \o toUpperCase(SubSeq(s, 2, Len(s)))

Capitalize(s) == IF Len(s) = 0 THEN "" ELSE UpperChar(CharAt(s, 1)) \o SubSeq(s, 2, Len(s))

\* names not in the alias table, property names of Object.prototype among them
OtherNames == {"", "unknown", "peru", "korea", "eu", "constructor", "__proto__", "tostring"}

BaseNames == countryMapKeys \cup countryMapValues \cup OtherNames

RawCountryNames ==
  {Blanks(i) \o v \o Blanks(j) :
     v \in UNION {{b, toUpperCase(b), Capitalize(b)} : b \in BaseNames},
     i \in 0..MaxPad, j \in 0..MaxPad}

InitNorm ==
  /\ normIn \in RawCountryNames
  /\ normOut = NoValue
  /\ normOut2 = NoValue
  /\ CalcAtRest
  /\ ApiAtRest
  /\ PopupAtRest

\* normalizeCountryName(x)
Normalize ==
  /\ normOut = NoValue
  /\ normOut' = normalizeCountryName(JSString(normIn))
  /\ UNCHANGED <<normIn, normOut2, calcVars, apiVars, popupVars>>

\* normalizeCountryName(normalizeCountryName(x))
NormalizeAgain ==
  /\ normOut # NoValue
  /\ normOut2 = NoValue
  /\ normOut2' = normalizeCountryName(normOut)
  /\ UNCHANGED <<normIn, normOut, calcVars, apiVars, popupVars>>

NextNorm == Normalize \/ NormalizeAgain

SpecNorm == InitNorm /\ [][NextNorm]_vars

-----------------------------------------------------------------------------
(* Specification of determineHTSCode: one product, classified once         *)

\* category texts: exact keys in several spellings, texts that contain one
\* or several keys, texts that contain none, and a property name of
\* Object.prototype
HtsCategories ==
  {"", " ", "Electronics", " HEADPHONES ", "T-Shirts", "Toys & Games",
   "Smartphone Headphones", "Teapots", "Home & Kitchen", "Garden Gnomes", "constructor"}

HtsTitles ==
  {"", "Wooden Toy Train", "Laptop Backpack", "Dog Bed", "Toyota Cap", "Mystery Item"}

HtsProducts ==
  [countryOfOrigin : {"China"}, price : {Num(50)}, category : HtsCategories,
   productTitle : HtsTitles]

InitHts ==
  /\ productData \in HtsProducts
  /\ calc = NoCalc
  /\ NormAtRest
  /\ ApiAtRest
  /\ PopupAtRest

\* determineHTSCode(productData)
RunDetermineHTSCode ==
  /\ calc = NoCalc
  /\ calc' = [impl |-> "determineHTSCode", htsCode |-> determineHTSCode(productData)]
  /\ UNCHANGED <<productData, normVars, apiVars, popupVars>>

NextHts == RunDetermineHTSCode

SpecHts == InitHts /\ [][NextHts]_vars

-----------------------------------------------------------------------------
(* Specification of the API path: getTariffInfo calls, the cache and the   *)
(* clock.  A call runs from its invocation to the cache lookup without     *)
(* interruption, is suspended while the simulated fetch waits for its      *)
(* timer, and runs from the timer callback to its return without           *)
(* interruption.                                                           *)

ApiCountries == {"China", "cn", "Peru"}
ApiPrices == {Num(50), Num(100)}
ApiCategories == {"Toys & Games"}
ApiTitles == {"Wooden Toy Train"}

\* a product whose category text is a property name of Object.prototype
InheritedCategoryProduct ==
  [countryOfOrigin |-> "China", price |-> Num(50), category |-> "constructor",
   productTitle |-> "Wooden Toy Train"]

ApiProducts ==
  [countryOfOrigin : ApiCountries, price : ApiPrices, category : ApiCategories,
   productTitle : ApiTitles]
  \cup {InheritedCategoryProduct}

TimePoints ==
  {StartNow + f * FETCH_DELAY + d * CACHE_DURATION + m :
     f \in 0..MaxFetchDelays, d \in 0..MaxDays, m \in 0..MaxMs}

\* tariffCache.data[cacheKey] = tariffData
putData(data, cacheKey, tariffData) ==
  [k \in DOMAIN data \cup {cacheKey} |-> IF k = cacheKey THEN tariffData ELSE data[k]]

\* hasCachedTariffData with an expiry test that includes the boundary
hasCachedTariffData_expiresAtDuration(cache, cacheKey, t) ==
  IF t - cache.timestamp >= CACHE_DURATION
  THEN [cache |-> [data |-> <<>>, timestamp |-> t], hit |-> FALSE]
  ELSE [cache |-> cache, hit |-> cacheKey \in DOMAIN cache.data]

\* hasCachedTariffData with an expiry that evicts only the entry looked up
hasCachedTariffData_evictsOneEntry(cache, cacheKey, t) ==
  IF t - cache.timestamp > CACHE_DURATION
  THEN [cache |-> [data |-> [k \in DOMAIN cache.data \ {cacheKey} |-> cache.data[k]],
                   timestamp |-> t],
        hit |-> FALSE]
  ELSE [cache |-> cache, hit |-> cacheKey \in DOMAIN cache.data]

\* hasCachedTariffData(cacheKey): the cache it leaves and what it returns
hasCachedTariffData(cache, cacheKey, t) ==
  IF t - cache.timestamp > CACHE_DURATION
  THEN [cache |-> [data |-> <<>>, timestamp |-> t], hit |-> FALSE]
  ELSE [cache |-> cache, hit |-> cacheKey \in DOMAIN cache.data]

\* getCachedTariffData(cacheKey, price)
getCachedTariffData(cache, cacheKey, price) ==
  LET tariffData == cache.data[cacheKey]
  IN [isSubjectToTariff |-> NumGt(tariffData.rate, Zero),
      tariffAmount |-> NumMul(price, tariffData.rate),
      tariffRate |-> tariffData.rate,
      message |-> tariffData.message,
      productDetails |-> tariffData.productDetails]

\* cacheTariffData(cacheKey, tariffData)
cacheTariffData(cache, cacheKey, tariffData, t) ==
  [data |-> putData(cache.data, cacheKey, tariffData), timestamp |-> t]

\* the object getTariffInfo returns after a fetch
freshResult(e, tariffData) ==
  [isSubjectToTariff |-> NumGt(tariffData.rate, Zero),
   tariffAmount |-> NumMul(e.price, tariffData.rate),
   tariffRate |-> tariffData.rate,
   message |-> tariffData.message,
   htsCode |-> IF truthy(tariffData.htsCode) THEN tariffData.htsCode ELSE e.htsCode,
   countryOfOrigin |-> e.countryOfOrigin,
   productDetails |-> tariffData.productDetails]

\* enrichProductData, constructCacheKey and fetchTariffData are pure: their
\* values on the products of the model, computed once
apiTable ==
  {[productData |-> pd,
    enrichedData |-> enrichProductData(pd),
    cacheKey |-> constructCacheKey(enrichProductData(pd)),
    tariffData |-> fetchTariffData(enrichProductData(pd))] : pd \in ApiProducts}
apiRow(pd) == CHOOSE row \in apiTable : row.productData = pd
enrichedOf(pd) == apiRow(pd).enrichedData
cacheKeyOf(pd) == apiRow(pd).cacheKey
tariffDataOf(pd) == apiRow(pd).tariffData

InitApi ==
  /\ ApiAtRest
  /\ CalcAtRest
  /\ NormAtRest
  /\ PopupAtRest

\* getTariffInfo(pd) is called: enrichment, cache key, cache lookup; on a
\* hit the call returns the cached data, on a miss it starts the fetch
GetTariffInfo(i, pd) ==
  /\ calls[i].pc \in {"idle", "done"}
  /\ LET enrichedData == enrichedOf(pd)
         cacheKey == cacheKeyOf(pd)
         lookup == hasCachedTariffData(tariffCache, cacheKey, now)
     IN /\ tariffCache' = lookup.cache
        /\ storedAt' = [k \in DOMAIN lookup.cache.data |-> storedAt[k]]
        /\ calls' = [calls EXCEPT ![i] =
             IF lookup.hit
             THEN [pc |-> "done", productData |-> pd, enrichedData |-> enrichedData,
                   cacheKey |-> cacheKey, path |-> "cache",
                   result |-> getCachedTariffData(lookup.cache, cacheKey, enrichedData.price)]
             ELSE [pc |-> "fetching", productData |-> pd, enrichedData |-> enrichedData,
                   cacheKey |-> cacheKey, due |-> now + FETCH_DELAY]]
  /\ UNCHANGED <<now, calcVars, normVars, popupVars>>

\* the timer of fetchTariffData fires: the promise resolves, the call
\* caches the tariff data and returns its result (a callback that throws
\* resolves nothing and the call stays suspended)
FetchCompletes(i) ==
  /\ calls[i].pc = "fetching"
  /\ now >= calls[i].due
  /\ tariffDataOf(calls[i].productData) # JSTypeError
  /\ LET c == calls[i]
         tariffData == tariffDataOf(c.productData)
     IN /\ tariffCache' = cacheTariffData(tariffCache, c.cacheKey, tariffData, now)
        /\ storedAt' = putData(storedAt, c.cacheKey, now)
        /\ calls' = [calls EXCEPT ![i] =
             [pc |-> "done", productData |-> c.productData, enrichedData |-> c.enrichedData,
              cacheKey |-> c.cacheKey, path |-> "fetch",
              result |-> freshResult(c.enrichedData, tariffData)]]
  /\ UNCHANGED <<now, calcVars, normVars, popupVars>>

\* the timer of fetchTariffData fires and its callback throws: the
\* exception leaves the callback uncaught, resolve is never called and the
\* promise that getTariffInfo awaits stays pending
FetchThrows(i) ==
  /\ calls[i].pc = "fetching"
  /\ now >= calls[i].due
  /\ tariffDataOf(calls[i].productData) = JSTypeError
  /\ calls' = [calls EXCEPT ![i].pc = "suspended"]
  /\ UNCHANGED <<tariffCache, storedAt, now, calcVars, normVars, popupVars>>

\* time passes
Tick ==
  /\ \E t \in TimePoints : t > now /\ now' = t
  /\ UNCHANGED <<tariffCache, calls, storedAt, calcVars, normVars, popupVars>>

NextApi ==
  \/ \E i \in 1..MaxCalls, pd \in ApiProducts : GetTariffInfo(i, pd)
  \/ \E i \in 1..MaxCalls : FetchCompletes(i)
  \/ \E i \in 1..MaxCalls : FetchThrows(i)
  \/ Tick

SpecApi == InitApi /\ [][NextApi]_vars

-----------------------------------------------------------------------------
(* Specification of the popup: the click handler of the check button, the  *)
(* script executions it starts in the active tab, and its 5-second timer.  *)
(* The handler runs without interruption between two awaits; a promise     *)
(* that settles resumes it in the same step.                               *)

SuccessStatus == "Tariff information displayed on page"
HighlightedStatus == "Tariff information is already on the page (highlighted)"
NotProductPageStatus == "Not an Amazon product page"
TabErrorStatus == "Error: Could not access tab"
RefreshStatus == "Please refresh the Amazon page to see tariff information"
TimeoutMessage == "Request timed out"

\* URLs of the active tab
PageUrls ==
  {"https://www.amazon.com/dp/B000000001", "https://www.amazon.com/gp/cart",
   "https://example.com/dp/B000000001"}

\* what goes wrong in the page when the injected check runs
PageFaults == {"none", "extraction", "calculation"}

\* messages of the errors a script execution is rejected with
RejectMessages == {"Cannot access contents of the page", "showTariffModal is not defined"}

\* a URL test that accepts every Amazon page
isProductPage_anyAmazonPage(url) == includes(url, "amazon.com")

\* !tab.url.includes('amazon.com') || !tab.url.includes('/dp/'), negated
isProductPage(url) == includes(url, "amazon.com") /\ includes(url, "/dp/")

\* resetButton()
resetButton(p) == [p EXCEPT !.disabled = FALSE, !.text = "Check Tariff"]

\* the inner catch block, then resetButton() at the end of the handler
catchExecutionError(p, message) ==
  resetButton([p EXCEPT
    !.status = IF includes(message, "tariffModal") \/ includes(message, "not defined")
               THEN RefreshStatus
               ELSE "Error: " \o message,
    !.pc = "idle"])

\* checkProductTariff(): what it returns and whether it shows the modal
checkProductTariff(pg) ==
  IF pg.fault = "extraction"
  THEN [result |-> [t |-> "error", error |-> "Error processing product information"],
        modal |-> pg.modal]
  ELSE IF pg.fault = "calculation"
  THEN [result |-> [t |-> "error", error |-> "Unexpected error"], modal |-> pg.modal]
  ELSE [result |-> [t |-> "success", success |-> TRUE], modal |-> TRUE]

InitPopup ==
  /\ popup = OpenedPopup
  /\ page \in [url : PageUrls, modal : BOOLEAN, fault : PageFaults]
  /\ exec = [k \in 1..MaxClicks |-> NoExec]
  /\ dom = NoDom
  /\ CalcAtRest
  /\ NormAtRest
  /\ ApiAtRest

\* initializePopup(): the callbacks of its tab query and its modal check
InitializePopup ==
  /\ ~popup.initialized
  /\ popup' = IF includes(page.url, "amazon.com") /\ page.modal
               THEN [popup EXCEPT !.initialized = TRUE,
                                  !.status = "Tariff information is already displayed on the page",
                                  !.text = "Highlight Tariff Info"]
               ELSE [popup EXCEPT !.initialized = TRUE]
  /\ UNCHANGED <<page, exec, calcVars, normVars, apiVars, dom>>

\* the user clicks the check button: the handler runs up to the tab query
Click ==
  /\ ~popup.disabled
  /\ popup.click < MaxClicks
  /\ popup' = [popup EXCEPT !.disabled = TRUE, !.text = "Checking...",
                            !.status = "Checking product...", !.pc = "tabsQuery",
                            !.click = @ + 1]
  /\ UNCHANGED <<page, exec, calcVars, normVars, apiVars, dom>>

\* chrome.tabs.query resolves with the active tab: the handler tests the
\* URL, starts the 5-second timer and requests the modal check
TabsQueryResolves ==
  /\ popup.pc = "tabsQuery"
  /\ IF ~isProductPage(page.url)
     THEN /\ popup' = resetButton([popup EXCEPT !.status = NotProductPageStatus, !.pc = "idle"])
          /\ UNCHANGED exec
     ELSE /\ popup' = [popup EXCEPT !.pc = "modalCheck"]
          /\ exec' = [exec EXCEPT ![popup.click].timer = "armed"]
  /\ UNCHANGED <<page, calcVars, normVars, apiVars, dom>>

\* chrome.tabs.query is rejected or yields no tab: the outer catch block
TabsQueryRejects ==
  /\ popup.pc = "tabsQuery"
  /\ popup' = resetButton([popup EXCEPT !.status = TabErrorStatus, !.pc = "idle"])
  /\ UNCHANGED <<page, exec, calcVars, normVars, apiVars, dom>>

\* the handler requests the injection of content-injection.js and awaits
\* Promise.race([resultPromise, timeoutPromise]); a timeoutPromise that is
\* already rejected rejects the race at once
InjectAndRace ==
  /\ exec' = [exec EXCEPT ![popup.click].injection = "pending"]
  /\ popup' = IF exec[popup.click].timer = "fired"
               THEN catchExecutionError(popup, TimeoutMessage)
               ELSE [popup EXCEPT !.pc = "race"]

\* the modal check resolves with whether the page shows the modal
ModalCheckResolves ==
  /\ popup.pc = "modalCheck"
  /\ IF page.modal
     THEN popup' = [popup EXCEPT !.pc = "highlight"] /\ UNCHANGED exec
     ELSE InjectAndRace
  /\ UNCHANGED <<page, calcVars, normVars, apiVars, dom>>

\* the highlight script resolves: with true when the modal is still there,
\* without a result when the modal is gone and the script failed in the page
HighlightResolves ==
  /\ popup.pc = "highlight"
  /\ IF page.modal
     THEN /\ popup' = resetButton([popup EXCEPT !.status = HighlightedStatus, !.pc = "idle"])
          /\ UNCHANGED exec
     ELSE InjectAndRace
  /\ UNCHANGED <<page, calcVars, normVars, apiVars, dom>>

\* the modal check or the highlight script is rejected: the inner catch block
ModalScriptRejects ==
  /\ popup.pc \in {"modalCheck", "highlight"}
  /\ \E message \in RejectMessages : popup' = catchExecutionError(popup, message)
  /\ UNCHANGED <<page, exec, calcVars, normVars, apiVars, dom>>

\* the 5-second timer of click k fires: timeoutPromise is rejected, which
\* rejects the race if the handler is awaiting it
TimeoutFires(k) ==
  /\ exec[k].timer = "armed"
  /\ exec' = [exec EXCEPT ![k].timer = "fired"]
  /\ popup' = IF popup.pc = "race" /\ popup.click = k
               THEN catchExecutionError(popup, TimeoutMessage)
               ELSE popup
  /\ UNCHANGED <<page, calcVars, normVars, apiVars, dom>>

\* content-injection.js runs in the page: checkProductTariff()
InjectionRuns(k) ==
  /\ exec[k].injection = "pending"
  /\ exec' = [exec EXCEPT ![k].injection = "ran", ![k].result = checkProductTariff(page).result]
  /\ page' = [page EXCEPT !.modal = checkProductTariff(page).modal]
  /\ UNCHANGED <<popup, calcVars, normVars, apiVars, dom>>

\* resultPromise of click k resolves; a handler that awaits the race sets
\* the success status without looking at the result
InjectionResolves(k) ==
  /\ exec[k].injection = "ran"
  /\ exec' = [exec EXCEPT ![k].injection = "settled"]
  /\ popup' = IF popup.pc = "race" /\ popup.click = k
               THEN resetButton([popup EXCEPT !.status = SuccessStatus, !.pc = "idle"])
               ELSE popup
  /\ UNCHANGED <<page, calcVars, normVars, apiVars, dom>>

\* resultPromise of click k is rejected because the script could not be
\* injected
InjectionRejects(k) ==
  /\ exec[k].injection = "pending"
  /\ exec' = [exec EXCEPT ![k].injection = "settled"]
  /\ \E message \in RejectMessages :
       popup' = IF popup.pc = "race" /\ popup.click = k
                THEN catchExecutionError(popup, message)
                ELSE popup
  /\ UNCHANGED <<page, calcVars, normVars, apiVars, dom>>

\* the modal is removed: its close button, or its 60-second timer
ModalCloses ==
  /\ page.modal
  /\ page' = [page EXCEPT !.modal = FALSE]
  /\ UNCHANGED <<popup, exec, calcVars, normVars, apiVars, dom>>

NextPopup ==
  \/ InitializePopup
  \/ Click
  \/ TabsQueryResolves
  \/ TabsQueryRejects
  \/ ModalCheckResolves
  \/ HighlightResolves
  \/ ModalScriptRejects
  \/ \E k \in 1..MaxClicks : TimeoutFires(k)
  \/ \E k \in 1..MaxClicks : InjectionRuns(k)
  \/ \E k \in 1..MaxClicks : InjectionResolves(k)
  \/ \E k \in 1..MaxClicks : InjectionRejects(k)
  \/ ModalCloses

SpecPopup == InitPopup /\ [][NextPopup]_vars

\* the browser completes every tab query and fires every timer; a script
\* execution in the page may never complete
SpecPopupFair ==
  /\ SpecPopup
  /\ WF_vars(TabsQueryResolves \/ TabsQueryRejects)
  /\ \A k \in 1..MaxClicks : WF_vars(TimeoutFires(k))

-----------------------------------------------------------------------------
(* Specification of the tariff modal in one loaded product page: the       *)
(* automatic check of content.js two seconds after the load, checks        *)
(* injected on request, the close button and the auto-close timers.  A     *)
(* timer fires when it is due: the clock does not pass a pending timer.    *)

AUTO_CLOSE == 60000
LOAD_DELAY == 2000

ModalTimePoints ==
  {StartNow + a * LOAD_DELAY + b * (AUTO_CLOSE \div 2) : a \in 0..1, b \in 0..MaxHalfMinutes}

ModalProducts ==
  {[countryOfOrigin |-> "China", price |-> Num(50), category |-> "Toys & Games"],
   [countryOfOrigin |-> "Mexico", price |-> Num(20), category |-> "Grocery & Gourmet Food"],
   [countryOfOrigin |-> "Japan", price |-> Num(30), category |-> "Electronics"]}

\* modal.remove(): the document without the element m
removeModal(modals, m) == SelectSeq(modals, LAMBDA x : x # m)

\* showTariffModal without the removal of the existing modal
showTariffModal_withoutRemoval(d, t) ==
  [d EXCEPT !.modals = Append(d.modals, d.created + 1),
            !.created = d.created + 1,
            !.timers = Append(d.timers, [due |-> t + AUTO_CLOSE, fired |-> FALSE])]

\* showTariffModal(productData, tariffData) at time t: the first element
\* with the id 'tariff-tax-modal' is removed, a new one is appended to the
\* body and its auto-close timer is started
showTariffModal(d, t) ==
  [d EXCEPT !.modals = Append(IF d.modals # <<>> THEN Tail(d.modals) ELSE <<>>, d.created + 1),
            !.created = d.created + 1,
            !.timers = Append(d.timers, [due |-> t + AUTO_CLOSE, fired |-> FALSE])]

\* an auto-close callback that removes the element it finds by the id
autoClose_removesFoundElement(d, m) ==
  [d EXCEPT !.modals = IF d.modals # <<>> THEN Tail(d.modals) ELSE d.modals,
            !.timers[m].fired = TRUE]

\* the auto-close callback of modal m:
\* if (document.getElementById('tariff-tax-modal')) modal.remove()
autoClose(d, m) ==
  [d EXCEPT !.modals = IF d.modals # <<>> THEN removeModal(d.modals, m) ELSE d.modals,
            !.timers[m].fired = TRUE]

\* a load listener that shows the modal for every extracted product
loadListener_showsEveryResult(pg, pd, d, t) ==
  IF pg.fault # "none" THEN d ELSE showTariffModal(d, t)

\* the timer callback of the load listener of content.js
loadListener(pg, pd, d, t) ==
  IF pg.fault # "none" THEN d
  ELSE IF content_fallbackCalculation(pd).result.isSubjectToTariff THEN showTariffModal(d, t)
  ELSE d

InitModal ==
  /\ productData \in ModalProducts
  /\ calc = NoCalc
  /\ page \in [url : {"https://www.amazon.com/dp/B000000001"}, modal : {FALSE}, fault : PageFaults]
  /\ dom = NoDom
  /\ popup = OpenedPopup
  /\ exec = [k \in 1..MaxClicks |-> NoExec]
  /\ NormAtRest
  /\ ApiAtRest

\* the page shows a modal exactly if the document holds a modal element
withModalFlag(pg, d) == [pg EXCEPT !.modal = d.modals # <<>>]

\* the load timer of content.js fires: the automatic check
AutomaticCheck ==
  /\ dom.autoCheck = "waiting"
  /\ now >= StartNow + LOAD_DELAY
  /\ dom' = [loadListener(page, productData, dom, now) EXCEPT !.autoCheck = "ran"]
  /\ page' = withModalFlag(page, dom')
  /\ UNCHANGED <<now, tariffCache, calls, storedAt, popup, exec, calcVars, normVars>>

\* content-injection.js runs in the page: the check on request
UserCheck ==
  /\ dom.created + (IF dom.autoCheck = "waiting" THEN 1 ELSE 0) < MaxModals
  /\ dom' = IF checkProductTariff(page).result.t = "success"
             THEN showTariffModal(dom, now)
             ELSE dom
  /\ page' = withModalFlag(page, dom')
  /\ UNCHANGED <<now, tariffCache, calls, storedAt, popup, exec, calcVars, normVars>>

\* the user clicks the close button of the modal m
CloseButton(m) ==
  /\ \E i \in DOMAIN dom.modals : dom.modals[i] = m
  /\ dom' = [dom EXCEPT !.modals = removeModal(dom.modals, m)]
  /\ page' = withModalFlag(page, dom')
  /\ UNCHANGED <<now, tariffCache, calls, storedAt, popup, exec, calcVars, normVars>>

\* the auto-close timer of the modal m fires
AutoCloseTimer(m) ==
  /\ m \in DOMAIN dom.timers
  /\ ~dom.timers[m].fired
  /\ now >= dom.timers[m].due
  /\ dom' = autoClose(dom, m)
  /\ page' = withModalFlag(page, dom')
  /\ UNCHANGED <<now, tariffCache, calls, storedAt, popup, exec, calcVars, normVars>>

\* time passes in the page, up to the next pending timer
TickModal ==
  /\ \E t \in ModalTimePoints :
       /\ t > now
       /\ dom.autoCheck = "waiting" => t <= StartNow + LOAD_DELAY
       /\ \A m \in DOMAIN dom.timers : ~dom.timers[m].fired => t <= dom.timers[m].due
       /\ now' = t
  /\ UNCHANGED <<dom, page, tariffCache, calls, storedAt, popup, exec, calcVars, normVars>>

NextModal ==
  \/ AutomaticCheck
  \/ UserCheck
  \/ \E m \in 1..MaxModals : CloseButton(m)
  \/ \E m \in 1..MaxModals : AutoCloseTimer(m)
  \/ TickModal

SpecModal == InitModal /\ [][NextModal]_vars

-----------------------------------------------------------------------------
(* Properties of the rate resolution and price decomposition (SpecCalc) *)

\* the observation as the claims describe it
ObservedCountry == toLowerCase(productData.countryOfOrigin)
ObservedCategory == toLowerCase(productData.category)
ObservedPrice == productData.price

FromChina == includes(ObservedCountry, "china") \/ includes(ObservedCountry, "hong kong")
FromMexico == ~FromChina /\ includes(ObservedCountry, "mexico")
FromCanada == ~FromChina /\ ~FromMexico /\ includes(ObservedCountry, "canada")

\* postal channel as section 4.2 defines it
PostalChannel ==
  /\ NumLt(ObservedPrice, Num(100))
  /\ ~includes(ObservedCategory, "electronics")
  /\ ~includes(ObservedCategory, "appliance")

FoodCategory ==
  \E k \in {"food", "produce", "vegetable", "fruit"} : includes(ObservedCategory, k)
EnergyCategory ==
  \E k \in {"energy", "oil", "gas", "potash"} : includes(ObservedCategory, k)

IsFallbackCalculation == calc.impl \in {"content", "injection"}
HasResult == calc.impl # "none"

\* a boolean property of a result object that is present and true
Flag(r, key) == key \in DOMAIN r /\ r[key] = TRUE

\* the flat fee is the selected policy of the result
FlatFeeSelected(r) == Flag(r, "isUsingFlatFee") \/ includes(r.message, "flat fee")

\* C1: for every price >= 0 and every result whose policy is a percentage
\* rate (isUsingFlatFee not set), the three fallback computations return
\* preTariffPrice * (1 + tariffRate) = price and
\* tariffAmount + preTariffPrice = price.
C1_PercentageDecompositionIdentity ==
  (HasResult /\ ~Flag(calc.result, "isUsingFlatFee")) =>
    /\ NumEq(NumMul(calc.result.preTariffPrice, NumAdd(One, calc.result.tariffRate)), ObservedPrice)
    /\ NumEq(NumAdd(calc.result.tariffAmount, calc.result.preTariffPrice), ObservedPrice)

\* the tariff amounts the two postal policies yield at the observed price,
\* as each copy of fallbackCalculation measures them
PercentagePolicyAmount ==
  IF calc.impl = "content" THEN NumMul(ObservedPrice, Rat(120, 100))
  ELSE NumSub(ObservedPrice, NumDiv(ObservedPrice, Rat(220, 100)))
FlatFeePolicyAmount == Num(100)

C4_ApproximationFlagSurfaced ==
  (IsFallbackCalculation /\ FromChina /\ FlatFeeSelected(calc.result)
     /\ NumGe(Num(100), ObservedPrice)) =>
    (Flag(calc.result, "specialPriceLogic") \/ Flag(calc.result, "isApproximate"))

\* C5: the shipment channel is inferred as postal if and only if
\* price < 100 and the lower-cased category contains neither 'electronics'
\* nor 'appliance'.
C5_PostalInference ==
  IsFallbackCalculation => (calc.isPostalShipment <=> PostalChannel)

C5_Witness ==
  /\ calc.impl = "content"
  /\ ObservedPrice = Num(100)
  /\ productData.category = "Toys & Games"
  /\ ~calc.isPostalShipment

\* C6: for a product from China or Hong Kong on a non-postal channel,
\* fallbackCalculation applies the single 125% rate without any flat-fee
\* comparison: tariffRate = 1.25, isSubjectToTariff, no flat-fee flag, and
\* tariffAmount > 0 whenever price > 0.
C6_NonPostalChinaRate ==
  (IsFallbackCalculation /\ FromChina /\ ~PostalChannel) =>
    /\ calc.result.tariffRate = Rat(125, 100)
    /\ calc.result.isSubjectToTariff
    /\ ~FlatFeeSelected(calc.result)
    /\ ~Flag(calc.result, "specialPriceLogic")
    /\ (NumGt(ObservedPrice, Zero) => NumGt(calc.result.tariffAmount, Zero))

C6_Witness ==
  /\ calc.impl = "injection" /\ FromChina
  /\ productData.category = "Electronics"
  /\ NumLt(ObservedPrice, Num(100)) /\ NumGt(ObservedPrice, Zero)
  /\ calc.result.tariffRate = Rat(125, 100)
  /\ NumGt(calc.result.tariffAmount, Zero)

\* C7: for a product from Mexico whose category contains 'food', 'produce',
\* 'vegetable' or 'fruit', fallbackCalculation returns the exempt policy for
\* every price: isSubjectToTariff = false, tariffRate = 0, tariffAmount = 0
\* and preTariffPrice = price.
C7_MexicoFoodExempt ==
  (IsFallbackCalculation /\ FromMexico /\ FoodCategory) =>
    /\ ~calc.result.isSubjectToTariff
    /\ NumEq(calc.result.tariffRate, Zero)
    /\ NumEq(calc.result.tariffAmount, Zero)
    /\ NumEq(calc.result.preTariffPrice, ObservedPrice)

C7_Witness ==
  /\ calc.impl = "injection" /\ FromMexico
  /\ productData.category = "Fresh Produce"
  /\ ObservedPrice = Num(50)
  /\ ~calc.result.isSubjectToTariff
  /\ NumEq(calc.result.tariffAmount, Zero)

\* C8: for a product from Canada the sub-rules are evaluated in a fixed
\* order, first match wins: a food category gives the exempt policy even
\* when the category also contains an energy keyword; otherwise an energy
\* category gives the reduced 10% rate; otherwise the default 25% rate.
C8_CanadaRuleOrder ==
  (IsFallbackCalculation /\ FromCanada) =>
    IF FoodCategory
    THEN ~calc.result.isSubjectToTariff /\ NumEq(calc.result.tariffRate, Zero)
    ELSE IF EnergyCategory
    THEN calc.result.isSubjectToTariff /\ calc.result.tariffRate = Rat(10, 100)
    ELSE calc.result.isSubjectToTariff /\ calc.result.tariffRate = Rat(25, 100)

C8_Witness ==
  /\ calc.impl = "content" /\ FromCanada
  /\ FoodCategory /\ EnergyCategory
  /\ ~calc.result.isSubjectToTariff
  /\ NumEq(calc.result.tariffRate, Zero)

\* C9: when the country of origin is 'Unknown', fallbackCalculation
\* returns, for every price and every category, the baseline percentage
\* policy (tariffRate = 0.10, isSubjectToTariff = true) with a message that
\* mentions the unknown origin.
C9_UnknownCountryBaseline ==
  (IsFallbackCalculation /\ ObservedCountry = "unknown") =>
    /\ calc.result.tariffRate = Rat(10, 100)
    /\ calc.result.isSubjectToTariff
    /\ includes(toLowerCase(calc.result.message), "unknown")

\* C17: a price of zero is a valid degenerate input: for price = 0 and
\* every country and category, fallbackCalculation (in content.js and in
\* content-injection.js) divides by no zero and returns finite numbers for
\* tariffRate, preTariffPrice and tariffAmount.
C17_ZeroPriceFinite ==
  IsFallbackCalculation /\ NumEq(ObservedPrice, Zero) =>
    /\ IsFinite(calc.result.tariffRate)
    /\ IsFinite(calc.result.preTariffPrice)
    /\ IsFinite(calc.result.tariffAmount)

-----------------------------------------------------------------------------
(* Properties of normalizeCountryName (SpecNorm) *)

\* C10: normalizeCountryName is idempotent: for every input string x,
\* normalizeCountryName(normalizeCountryName(x)) = normalizeCountryName(x).
C10_NormalizeIdempotent ==
  normOut2 # NoValue => normOut2 = normOut

\* the alias target of a normalized name that is a key of the alias table
aliasTarget(n) ==
  countryMap[CHOOSE i \in 1..Len(countryMap) : countryMap[i][1] = n][2]

\* C11: normalizeCountryName never fails and always returns a string: every
\* input string maps to exactly one output string, the alias target or,
\* when the name is not recognised, the trimmed lower-cased input; the
\* empty input maps to "unknown".
C11_NormalizeTotalString ==
  normOut # NoValue =>
    LET n == trim(toLowerCase(normIn))
    IN /\ normOut.t = "string"
       /\ normOut.v = IF normIn = "" THEN "unknown"
                      ELSE IF n \in countryMapKeys THEN aliasTarget(n)
                      ELSE n

\* the inputs that spell one of the aliases "U.S.", "usa", "United States"
\* in some letter case and with surrounding whitespace
SpellsUnitedStates == trim(toLowerCase(normIn)) \in {"u.s.", "usa", "united states"}

\* C12: the aliases "U.S.", "usa" and "United States", in any letter case
\* and with surrounding whitespace, are all mapped to one and the same
\* canonical value, the string that "usa" is mapped to.
C12_UnitedStatesAliasesAgree ==
  normOut # NoValue /\ SpellsUnitedStates =>
    /\ normOut.t = "string"
    /\ normOut = normalizeCountryName(JSString("usa"))

C12_Witness ==
  /\ normIn = " U.S. "
  /\ normOut = JSString("united states")

-----------------------------------------------------------------------------
(* Properties of the API path (SpecApi) *)

\* C2: a result that getTariffInfo returns on the API path, freshly
\* resolved or read from the cache, treats the observed price as
\* tariff-inclusive: tariffAmount = price - price / (1 + tariffRate).
C2_ApiResultTariffInclusive ==
  \A i \in 1..MaxCalls :
    calls[i].pc = "done" =>
      NumEq(calls[i].result.tariffAmount,
            NumSub(calls[i].productData.price,
                   NumDiv(calls[i].productData.price, NumAdd(One, calls[i].result.tariffRate))))

\* call i performs its cache lookup in this step
LookupStep(i) == calls[i].pc \in {"idle", "done"} /\ calls'[i] # calls[i]

\* call i writes its tariff data to the cache in this step
WriteStep(i) == calls[i].pc = "fetching" /\ calls'[i].pc = "done"

\* C13: after cacheTariffData(k, v), a lookup of k that follows immediately
\* (hasCachedTariffData, then getCachedTariffData) finds the entry and
\* yields the rate and the message of v, at every time of the lookup that
\* is not more than CACHE_DURATION after the write.
C13_CacheRoundTrip ==
  [][\A i \in 1..MaxCalls :
       WriteStep(i) =>
         LET k == calls[i].cacheKey
             v == tariffDataOf(calls[i].productData)
         IN \A t \in TimePoints :
              t >= now /\ t - now <= CACHE_DURATION =>
                LET lookup == hasCachedTariffData(tariffCache', k, t)
                    found == getCachedTariffData(lookup.cache, k, calls[i].enrichedData.price)
                IN /\ lookup.hit
                   /\ found.tariffRate = v.rate
                   /\ found.message = v.message]_vars

C13_Witness ==
  \E i, j \in 1..MaxCalls :
    /\ calls[i].pc = "done" /\ calls[i].path = "fetch"
    /\ calls[j].pc = "done" /\ calls[j].path = "cache"
    /\ calls[j].cacheKey = calls[i].cacheKey
    /\ calls[j].result.tariffRate = tariffDataOf(calls[i].productData).rate
    /\ calls[j].result.message = tariffDataOf(calls[i].productData).message
    /\ now > tariffCache.timestamp

\* C14: whatever cache writes and lookups came before and however time
\* advanced, a lookup never reports a hit for an entry that was stored
\* more than CACHE_DURATION before the lookup.
C14_NoStaleHit ==
  [][\A i \in 1..MaxCalls :
       LookupStep(i) /\ calls'[i].pc = "done" =>
         now - storedAt[calls'[i].cacheKey] <= CACHE_DURATION]_vars

\* C15: a lookup made when now - timestamp > CACHE_DURATION removes every
\* entry, sets the timestamp to now and reports a miss; a lookup within
\* the duration leaves the store and the timestamp unchanged; no step
\* removes an entry while it keeps another one.
C15_InvalidationAllOrNothing ==
  [][/\ \A i \in 1..MaxCalls :
          LookupStep(i) =>
            IF now - tariffCache.timestamp > CACHE_DURATION
            THEN /\ tariffCache' = [data |-> <<>>, timestamp |-> now]
                 /\ calls'[i].pc = "fetching"
            ELSE tariffCache' = tariffCache
      /\ \/ DOMAIN tariffCache.data \subseteq DOMAIN tariffCache'.data
         \/ DOMAIN tariffCache'.data = {}]_vars

C15_Witness ==
  \E i, j \in 1..MaxCalls :
    /\ calls[i].pc = "done" /\ calls[i].path = "fetch"
    /\ calls[j].pc = "fetching" /\ calls[j].due = now + FETCH_DELAY
    /\ tariffCache = [data |-> <<>>, timestamp |-> now]
    /\ now - CACHE_DURATION > StartNow

-----------------------------------------------------------------------------
(* Properties of determineHTSCode (SpecHts) *)

\* the smallest index of a non-empty set of table indices
FirstIndex(S) == CHOOSE i \in S : \A j \in S : i <= j

\* the lower-cased trimmed category of the classified product
ClassifiedCategory == trim(toLowerCase(productData.category))

\* stage 1: the key of the category table that equals the category
ExactStage ==
  {i \in DOMAIN categoryMap : productData.category # "" /\ categoryMap[i][1] = ClassifiedCategory}

\* stage 2: the keys of the category table that the category contains
ContainedStage ==
  {i \in DOMAIN categoryMap :
     productData.category # "" /\ includes(ClassifiedCategory, categoryMap[i][1])}

\* stage 3: the keyword patterns that match the title plus the description
KeywordStage ==
  {i \in DOMAIN keywordMap :
     \E a \in DOMAIN keywordMap[i][1] :
       matchesWord(productData.productTitle \o " ", keywordMap[i][1][a])}

\* C16: determineHTSCode classifies in a fixed order and the first match
\* wins: the exact match of the lower-cased trimmed category in the
\* category table; else the first key of the table, in table order, that
\* the category contains; else the first keyword pattern, in table order,
\* that matches the title plus the description; else the sentinel '9999'.
\* A later stage decides only when every earlier stage found nothing.
C16_ClassificationOrder ==
  calc.impl = "determineHTSCode" =>
    calc.htsCode =
      IF ExactStage # {} THEN JSString(categoryMap[FirstIndex(ExactStage)][2])
      ELSE IF ContainedStage # {} THEN JSString(categoryMap[FirstIndex(ContainedStage)][2])
      ELSE IF KeywordStage # {} THEN JSString(keywordMap[FirstIndex(KeywordStage)][2])
      ELSE JSString("9999")

-----------------------------------------------------------------------------
(* Properties of the popup (SpecPopup, SpecPopupFair) *)

\* the injected check of click k has been requested and has not completed
InFlight(k) == exec[k].injection \in {"pending", "ran"}

\* C18: checks requested by the user never overlap: the check button is
\* disabled as long as a check it started is in flight, also when the
\* 5-second timeout fires before the injection has finished, so no second
\* check can start before the previous injected check has completed.
C18_ChecksNeverOverlap ==
  \A k \in 1..MaxClicks : InFlight(k) => popup.disabled /\ popup.click = k

\* C19: a click on the check button never waits forever: on every path,
\* one on which a script execution never completes included, the button
\* is eventually enabled again.
C19_ButtonReenabled == popup.disabled ~> ~popup.disabled

\* C20: a failed check (extractProductData returns an error, or the
\* calculation throws) yields an error-shaped result, shows no modal, and
\* the popup does not show the success status for it.
C20_FailureReported ==
  \A k \in 1..MaxClicks :
    exec[k].result.t = "error" /\ popup.click = k => popup.status # SuccessStatus

-----------------------------------------------------------------------------
(* Properties of the tariff modal (SpecModal) *)

\* the modal m is an element of the document
Shown(d, m) == \E i \in DOMAIN d.modals : d.modals[i] = m

\* C21: after any sequence of automatic checks, checks on request, clicks
\* on the close button and auto-close timers the document holds at most
\* one element with the id 'tariff-tax-modal'.
C21_AtMostOneModal == Len(dom.modals) <= 1

C21_Witness ==
  /\ dom.created >= 2
  /\ dom.modals = <<dom.created>>

C23_AutomaticCheckShowsSubjectOnly ==
  [][ dom.autoCheck = "waiting" /\ dom'.autoCheck = "ran" =>
        /\ (dom'.created = dom.created + 1 /\ Shown(dom', dom'.created))
             <=> (page.fault = "none"
                  /\ content_fallbackCalculation(productData).result.isSubjectToTariff)
        /\ dom'.created = dom.created => dom'.modals = dom.modals ]_vars

C23_Witness ==
  /\ dom.autoCheck = "ran"
  /\ dom.created = 1
  /\ Shown(dom, 1)
  /\ now = StartNow + LOAD_DELAY
  /\ productData.countryOfOrigin = "China"

-----------------------------------------------------------------------------
(* Properties of the guard of the injection (SpecPopup) *)

\* the step requests the injection of content-injection.js for the click k
RequestsInjection(k) == exec[k].injection = "none" /\ exec'[k].injection = "pending"

-----------------------------------------------------------------------------
(* Properties of the three rate resolutions compared (SpecCalc) *)

\* raw country names that normalizeCountryName maps to the same name
SameCanonicalName(a, b) ==
  normalizeCountryName(JSString(a)) = normalizeCountryName(JSString(b))

\* the result of the implementation that ran, for the product pd
ResultOf(impl, pd) ==
  IF impl = "content" THEN content_fallbackCalculation(pd).result
  ELSE IF impl = "injection" THEN injection_fallbackCalculation(pd).result
  ELSE fallbackTariffCheck(pd)

\* C25: country normalization precedes rate resolution in every check
\* path: two raw country names with the same canonical name resolve to the
\* same tariffRate and isSubjectToTariff for the same price and category,
\* in fallbackCalculation of both content scripts as in fallbackTariffCheck.
C25_NormalizationPrecedesResolution ==
  HasResult =>
    \A c \in Countries :
      SameCanonicalName(c, productData.countryOfOrigin) =>
        LET other == ResultOf(calc.impl, [productData EXCEPT !.countryOfOrigin = c])
        IN /\ other.tariffRate = calc.result.tariffRate
           /\ other.isSubjectToTariff = calc.result.isSubjectToTariff

\* the message of the approximation case of content-injection.js
ApproximationMessage(r) == includes(r.message, "the tariff shown is an approximation")

\* C27: in content-injection.js every China / Hong Kong product on the
\* postal channel (price below 100, category neither electronics nor
\* appliance) ends in the approximation case: specialPriceLogic and
\* isUsingFlatFee are true, tariffRate is 0, tariffAmount is 0.7 * price
\* and preTariffPrice is price - tariffAmount; neither the 120% branch nor
\* the flat-fee branch with fee < price is taken.
C27_PostalAlwaysApproximation ==
  calc.impl = "injection" /\ FromChina /\ PostalChannel =>
    /\ Flag(calc.result, "specialPriceLogic")
    /\ Flag(calc.result, "isUsingFlatFee")
    /\ calc.result.tariffRate = Zero
    /\ calc.result.tariffAmount = NumMul(ObservedPrice, Rat(7, 10))
    /\ calc.result.preTariffPrice = NumSub(ObservedPrice, calc.result.tariffAmount)
    /\ ApproximationMessage(calc.result)

C27_Witness ==
  /\ calc.impl = "injection"
  /\ productData.countryOfOrigin = "Hong Kong"
  /\ PostalChannel
  /\ ObservedPrice = Rat(199, 2)
  /\ calc.result.tariffAmount = Rat(1393, 20)

\* x lies between 0 and the observed price
WithinPrice(x) == NumGe(x, Zero) /\ NumLe(x, ObservedPrice)

\* C28: the decomposition never inverts: for every price >= 0, every
\* country and every category the result of fallbackCalculation of
\* content.js and of content-injection.js has 0 <= tariffAmount <= price
\* and 0 <= preTariffPrice <= price.
C28_DecompositionNeverInverts ==
  IsFallbackCalculation /\ NumGe(ObservedPrice, Zero) =>
    /\ WithinPrice(calc.result.tariffAmount)
    /\ WithinPrice(calc.result.preTariffPrice)

C28_Witness ==
  /\ calc.impl = "content"
  /\ FromChina
  /\ PostalChannel
  /\ ObservedPrice = Num(40)
  /\ NumGt(calc.result.tariffAmount, Zero)
  /\ NumLt(calc.result.tariffAmount, ObservedPrice)

\* the inputs on which content.js alone assumes a Chinese origin
LikelyChinaGuess ==
  /\ ObservedCountry = "unknown"
  /\ NumLt(ObservedPrice, Num(50))
  /\ \E k \in {"electronics", "home", "light", "tool"} : includes(ObservedCategory, k)

\* the four fields of a result that both copies return
CommonFields(r) ==
  <<r.isSubjectToTariff, r.tariffRate, r.preTariffPrice, r.tariffAmount>>

\* C29: the two copies of fallbackCalculation return the same
\* isSubjectToTariff, tariffRate, preTariffPrice and tariffAmount for
\* every input except China / Hong Kong products on the postal channel and
\* country 'unknown' with price < 50 and a category containing
\* 'electronics', 'home', 'light' or 'tool'.
C29_CopiesAgreeOutsideExceptions ==
  IsFallbackCalculation /\ ~(FromChina /\ PostalChannel) /\ ~LikelyChinaGuess =>
    /\ CommonFields(calc.result) = CommonFields(content_fallbackCalculation(productData).result)
    /\ CommonFields(calc.result) = CommonFields(injection_fallbackCalculation(productData).result)

C29_Witness ==
  /\ calc.impl = "injection"
  /\ FromChina
  /\ ~PostalChannel
  /\ ObservedPrice = Num(50)
  /\ calc.result.tariffRate = Rat(125, 100)
  /\ CommonFields(calc.result) = CommonFields(content_fallbackCalculation(productData).result)

-----------------------------------------------------------------------------
(* Properties of the settlement of getTariffInfo and of the cache under    *)
(* overlapping calls (SpecApi)                                             *)

\* C26: every call of getTariffInfo settles with a tariff result and never
\* stays pending: no call is left awaiting a promise of fetchTariffData
\* that nothing will resolve or reject any more.
C26_EveryCallSettles ==
  \A i \in 1..MaxCalls : calls[i].pc # "suspended"

\* the products of the model whose cache key is k and whose fetch resolves
ResolvableWithKey(k) ==
  {pd \in ApiProducts : cacheKeyOf(pd) = k /\ tariffDataOf(pd) # JSTypeError}

\* C30: under any interleaving of overlapping getTariffInfo calls, with
\* resets of the cache between the lookup and the write of a call, every
\* entry of tariffCache.data holds the tariff data resolved for its own
\* key, and a call served from the cache returns the tariffRate and
\* isSubjectToTariff that a fresh resolution of its product returns.
C30_EntriesBelongToTheirKey ==
  /\ \A k \in DOMAIN tariffCache.data :
       \A pd \in ResolvableWithKey(k) : tariffCache.data[k] = tariffDataOf(pd)
  /\ \A i \in 1..MaxCalls :
       calls[i].pc = "done" /\ calls[i].path = "cache" =>
         LET fresh == freshResult(calls[i].enrichedData, tariffDataOf(calls[i].productData))
         IN /\ calls[i].result.tariffRate = fresh.tariffRate
            /\ calls[i].result.isSubjectToTariff = fresh.isSubjectToTariff

C30_Witness ==
  \E i, j \in 1..MaxCalls :
    /\ calls[i].pc = "done" /\ calls[i].path = "cache"
    /\ calls[j].pc = "fetching"
    /\ calls[j].cacheKey = calls[i].cacheKey
    /\ calls[j].productData.countryOfOrigin # calls[i].productData.countryOfOrigin
    /\ calls[j].productData.price # calls[i].productData.price
    /\ calls[i].cacheKey \in DOMAIN tariffCache.data

====
